---- MODULE Spec2Model ----
(***************************************************************************)
(* A model of conformalize: the orchestration run (_main), the write       *)
(* contexts (yield_write_context, yield_text_file, write_text) and the     *)
(* partial-dictionary matcher (is_partial_dict).                           *)
(***************************************************************************)
EXTENDS Integers, FiniteSets, Sequences, TLC

\* ---------------------------------------------------------------- bounds

\* Longest run of trailing newlines a file or a serialisation ends with.
MaxNl == 1
\* Most statements of a closure that change the document.
MaxMutations == 2
\* Most writes of an external process to the target while a closure runs.
MaxExt == 1
\* Largest scalar stored in the dictionaries handed to is_partial_dict.
MaxScalar == 2
\* Longest array handed to the ensure_* helpers.
MaxLen == 3
\* Most values passed in one call (*objs, *tables).
MaxArgs == 2
\* Longest list of dicts handed to get_partial_dict and ensure_contains_partial.
MaxDicts == 2
\* Most helper calls made on one container.
MaxCalls == 2
\* Most repos the pre-commit config holds before the recipe runs.
MaxRepos == 2
\* Largest major, minor and patch number of the versions found.
MaxPart == 1
\* Most rule codes lint.ignore of an existing ruff.toml holds.
MaxRules == 2
\* Most runs of a recipe made one after the other.
MaxRuns == 2
\* Most of the plain optional recipes the settings enable.
MaxPlain == 1

\* ------------------------------------------------------ files and documents

\* The target files of the run, in the order _main reaches their recipes.
README_MD == "README.md"
RUFF_TOML == "ruff.toml"
Recipes == <<README_MD, RUFF_TOML>>
Paths == {Recipes[i] : i \in 1..Len(Recipes)}

\* add_readme_md opens a yield_text_file, add_ruff_toml a yield_toml_doc
\* (yield_write_context).
Kind(p) == IF p = README_MD THEN "text" ELSE "doc"

\* A document is the set of entries it holds; "unrep" is a value the format
\* cannot represent (dumps raises on it).
Entries == {"k"}
Docs == SUBSET (Entries \cup {"unrep"})
Serializable(d) == "unrep" \notin d
GetDefault == {}

\* What a path holds: nothing, a file being written (opened, content not
\* complete), or a complete text: a document followed by nl newlines.
Absent == [st |-> "absent", doc |-> {}, nl |-> 0]
Partial == [st |-> "partial", doc |-> {}, nl |-> 0]
Text(d, n) == [st |-> "full", doc |-> d, nl |-> n]
FullTexts == {Text(d, n) : d \in {x \in Docs : Serializable(x)}, n \in 0..MaxNl}

\* loads: the parse drops the trailing newlines.
Loads(t) == t.doc
\* dumps: json.dumps ends without a newline, yaml_dump with one, tomlkit
\* keeps the document's own; every ending is a possible serialisation.
Dumps(d) == {Text(d, n) : n \in 0..MaxNl}
\* write_text: text.rstrip("\n") + "\n".
Normalise(t) == Text(t.doc, 1)

VARIABLES
    pc,        \* where the run is
    cur,       \* index in Recipes of the recipe reached
    enabled,   \* settings: which recipes run
    disk,      \* path -> what the path holds
    tmp1,      \* run_write's temporary file (writer(path))
    tmp2,      \* write_text's temporary file (writer(dest))
    current,   \* path -> the file as read when the context was entered
    handed,    \* path -> the document the closure received
    data,      \* path -> the live document (text file: the temp's body)
    nmut,      \* path -> mutations the closure made
    seen,      \* path -> the file as it was when the closure returned
    nwrites,   \* path -> replacements of the target
    nExt,      \* external writes so far
    mods,      \* the ModificationSet
    outcome,   \* path -> how its context ended
    error,     \* the exception that ended the run
    exitCode,  \* the process exit code, -1 while running
    obj,       \* is_partial_dict: first argument
    dict_,     \* is_partial_dict: second argument
    result,    \* is_partial_dict: "none" before the call, else what it returned
    container, \* the array or list the mutation helpers work on
    ckind,     \* its type: "array" (Array), "aot" (AoT) or "list"
    objs,      \* the values passed to the ensure_* helpers
    partial,   \* the partial dict passed to the *_partial helpers
    extra,     \* ensure_contains_partial's extra
    calls,     \* the helper calls made so far, in order
    acc,       \* the get-or-create accessors: parent container and calls
    bump,      \* run_bump_my_version: the versions found and what was done
    hooks,     \* _add_pre_commit_config_repo: the repos list and the calls
    run,       \* _main as a sequence of recipes and write contexts
    ruff       \* add_ruff_toml run twice: the file, the document, the runs

ctxVars == <<pc, cur, enabled, disk, tmp1, tmp2, current, handed, data, nmut,
             seen, nwrites, nExt, mods, outcome, error, exitCode>>
pdVars == <<obj, dict_, result>>
seqVars == <<container, ckind, objs, partial, extra, calls>>
recipeVars == <<acc, bump, hooks, run, ruff>>
vars == <<pc, cur, enabled, disk, tmp1, tmp2, current, handed, data, nmut,
          seen, nwrites, nExt, mods, outcome, error, exitCode,
          obj, dict_, result,
          container, ckind, objs, partial, extra, calls,
          acc, bump, hooks, run, ruff>>

\* The variables of the recipes while another part of the program is
\* looked at.
RecipesIdle ==
    /\ acc = "idle"
    /\ bump = "idle"
    /\ hooks = "idle"
    /\ run = "idle"
    /\ ruff = "idle"

\* ------------------------------------------------------------ the run

Path == Recipes[cur]
InContext(p) == cur \in 1..Len(Recipes) /\ Recipes[cur] = p

\* The documents a closure can leave behind: a text file's closure writes
\* text, so every body it writes is representable.
ClosureDocs(p) == IF Kind(p) = "doc" THEN Docs ELSE {d \in Docs : Serializable(d)}

CtxInit ==
    /\ pc = "start"
    /\ cur = 1
    /\ enabled \in [Paths -> BOOLEAN]
    /\ disk \in [Paths -> FullTexts \cup {Absent}]
    /\ tmp1 = Absent
    /\ tmp2 = Absent
    /\ current = [p \in Paths |-> Absent]
    /\ handed = [p \in Paths |-> GetDefault]
    /\ data = [p \in Paths |-> GetDefault]
    /\ nmut = [p \in Paths |-> 0]
    /\ seen = [p \in Paths |-> Absent]
    /\ nwrites = [p \in Paths |-> 0]
    /\ nExt = 0
    /\ mods = {}
    /\ outcome = [p \in Paths |-> "none"]
    /\ error = "none"
    /\ exitCode = -1

\* _main under pytest: returns before anything is done.
EarlyReturn ==
    /\ pc = "start"
    /\ pc' = "done"
    /\ exitCode' = 0
    /\ UNCHANGED <<cur, enabled, disk, tmp1, tmp2, current, handed, data, nmut,
                   seen, nwrites, nExt, mods, outcome, error>>
    /\ UNCHANGED pdVars
    /\ UNCHANGED seqVars
    /\ UNCHANGED recipeVars

\* modifications: set[Path] = set()
Begin ==
    /\ pc = "start"
    /\ mods' = {}
    /\ pc' = "main"
    /\ UNCHANGED <<cur, enabled, disk, tmp1, tmp2, current, handed, data, nmut,
                   seen, nwrites, nExt, outcome, error, exitCode>>
    /\ UNCHANGED pdVars
    /\ UNCHANGED seqVars
    /\ UNCHANGED recipeVars

\* if settings.readme: ... / if settings.ruff: ... with the setting off.
SkipRecipe ==
    /\ pc = "main"
    /\ cur \in 1..Len(Recipes)
    /\ ~enabled[Path]
    /\ cur' = cur + 1
    /\ UNCHANGED <<pc, enabled, disk, tmp1, tmp2, current, handed, data, nmut,
                   seen, nwrites, nExt, mods, outcome, error, exitCode>>
    /\ UNCHANGED pdVars
    /\ UNCHANGED seqVars
    /\ UNCHANGED recipeVars

\* The context is entered: path.read_text(); on FileNotFoundError the
\* closure gets get_default() (an empty temporary file), else loads(current)
\* (a temporary file holding the current text).
EnterContext(p) ==
    /\ pc = "main"
    /\ InContext(p)
    /\ enabled[p]
    /\ current' = [current EXCEPT ![p] = disk[p]]
    /\ LET d == IF disk[p].st = "absent" THEN GetDefault ELSE Loads(disk[p])
       IN /\ data' = [data EXCEPT ![p] = d]
          /\ handed' = [handed EXCEPT ![p] = d]
    /\ outcome' = [outcome EXCEPT ![p] = "open"]
    /\ pc' = "closure"
    /\ UNCHANGED <<cur, enabled, disk, tmp1, tmp2, nmut, seen, nwrites, nExt,
                   mods, error, exitCode>>
    /\ UNCHANGED pdVars
    /\ UNCHANGED seqVars
    /\ UNCHANGED recipeVars

\* One statement of the closure that changes the live document.
Mutate(p) ==
    /\ pc = "closure"
    /\ InContext(p)
    /\ nmut[p] < MaxMutations
    /\ \E d \in ClosureDocs(p) :
          /\ d # data[p]
          /\ data' = [data EXCEPT ![p] = d]
    /\ nmut' = [nmut EXCEPT ![p] = @ + 1]
    /\ UNCHANGED <<pc, cur, enabled, disk, tmp1, tmp2, current, handed, seen,
                   nwrites, nExt, mods, outcome, error, exitCode>>
    /\ UNCHANGED pdVars
    /\ UNCHANGED seqVars
    /\ UNCHANGED recipeVars

\* Mutant: the yield sits in a try whose finally clause runs the write.
ClosureRaiseFinally(p) ==
    /\ pc = "closure"
    /\ InContext(p)
    /\ pc' = IF Kind(p) = "doc" THEN "w_dumps" ELSE "wt_open"
    /\ outcome' = [outcome EXCEPT ![p] = "raised"]
    /\ error' = "closure"
    /\ UNCHANGED <<cur, enabled, disk, tmp1, tmp2, current, handed, data, nmut,
                   seen, nwrites, nExt, mods, exitCode>>
    /\ UNCHANGED pdVars
    /\ UNCHANGED seqVars
    /\ UNCHANGED recipeVars

\* The closure raises: the generator is resumed with the exception at its
\* yield, which no try surrounds, so nothing after the yield runs and the
\* exception leaves the context and _main: the interpreter prints the
\* traceback and the process ends with status 1.
ClosureRaise(p) ==
    /\ pc = "closure"
    /\ InContext(p)
    /\ pc' = "aborted"
    /\ outcome' = [outcome EXCEPT ![p] = "raised"]
    /\ error' = "closure"
    /\ exitCode' = 1
    /\ UNCHANGED <<cur, enabled, disk, tmp1, tmp2, current, handed, data, nmut,
                   seen, nwrites, nExt, mods>>
    /\ UNCHANGED pdVars
    /\ UNCHANGED seqVars
    /\ UNCHANGED recipeVars

\* The closure returns; the generator resumes after its yield.
ClosureReturn(p) ==
    /\ pc = "closure"
    /\ InContext(p)
    /\ pc' = "compare"
    /\ seen' = [seen EXCEPT ![p] = disk[p]]
    /\ UNCHANGED <<cur, enabled, disk, tmp1, tmp2, current, handed, data, nmut,
                   nwrites, nExt, mods, outcome, error, exitCode>>
    /\ UNCHANGED pdVars
    /\ UNCHANGED seqVars
    /\ UNCHANGED recipeVars

\* Mutant: the comparison never finds the document equal.
IsEqualNever(p) == FALSE

\* is_equal = data == loads(current): current is the text read on entry.
\* (yield_text_file: temp.read_text().rstrip("\n") == current.rstrip("\n").)
IsEqual(p) == data[p] = Loads(current[p])

\* The first step of the write: run_write for a document, write_text for a
\* text file.
WriteStart(p) == IF Kind(p) = "doc" THEN "w_dumps" ELSE "wt_open"

\* Mutant: the pre-state "absent" is forgotten and the comparison alone
\* decides.
CompareOnly(p) ==
    /\ pc = "compare"
    /\ InContext(p)
    /\ IF ~IsEqual(p)
       THEN /\ pc' = WriteStart(p)
            /\ UNCHANGED <<cur, outcome>>
       ELSE /\ pc' = "main"
            /\ cur' = cur + 1
            /\ outcome' = [outcome EXCEPT ![p] = "unchanged"]
    /\ UNCHANGED <<enabled, disk, tmp1, tmp2, current, handed, data, nmut, seen,
                   nwrites, nExt, mods, error, exitCode>>
    /\ UNCHANGED pdVars
    /\ UNCHANGED seqVars
    /\ UNCHANGED recipeVars

\* After the yield: an absent file is always written; a present one only
\* when the document differs.
Compare(p) ==
    /\ pc = "compare"
    /\ InContext(p)
    /\ IF current[p].st = "absent" \/ ~IsEqual(p)
       THEN /\ pc' = WriteStart(p)
            /\ UNCHANGED <<cur, outcome>>
       ELSE /\ pc' = "main"
            /\ cur' = cur + 1
            /\ outcome' = [outcome EXCEPT ![p] = "unchanged"]
    /\ UNCHANGED <<enabled, disk, tmp1, tmp2, current, handed, data, nmut, seen,
                   nwrites, nExt, mods, error, exitCode>>
    /\ UNCHANGED pdVars
    /\ UNCHANGED seqVars
    /\ UNCHANGED recipeVars

\* Mutant: the target itself is opened for writing before dumps runs.
RunWriteDumpsInPlace(p) ==
    /\ pc = "w_dumps"
    /\ InContext(p)
    /\ disk' = [disk EXCEPT ![p] = Partial]
    /\ IF Serializable(data[p])
       THEN /\ tmp1' = Partial
            /\ pc' = "w_write"
            /\ UNCHANGED <<outcome, error, exitCode>>
       ELSE /\ pc' = "aborted"
            /\ outcome' = [outcome EXCEPT ![p] = "failed"]
            /\ error' = "dumps"
            /\ exitCode' = 1
            /\ UNCHANGED tmp1
    /\ UNCHANGED <<cur, enabled, tmp2, current, handed, data, nmut, seen,
                   nwrites, nExt, mods>>
    /\ UNCHANGED pdVars
    /\ UNCHANGED seqVars
    /\ UNCHANGED recipeVars

\* run_write: with writer(path) as temp: temp.write_text(dumps(data)).
\* dumps is evaluated first; when it raises, no temporary file exists yet
\* and the exception leaves the writer, the context and _main. Otherwise
\* the temporary file is opened for writing.
RunWriteDumps(p) ==
    /\ pc = "w_dumps"
    /\ InContext(p)
    /\ IF Serializable(data[p])
       THEN /\ tmp1' = Partial
            /\ pc' = "w_write"
            /\ UNCHANGED <<outcome, error, exitCode>>
       ELSE /\ pc' = "aborted"
            /\ outcome' = [outcome EXCEPT ![p] = "failed"]
            /\ error' = "dumps"
            /\ exitCode' = 1
            /\ UNCHANGED tmp1
    /\ UNCHANGED <<cur, enabled, disk, tmp2, current, handed, data, nmut, seen,
                   nwrites, nExt, mods>>
    /\ UNCHANGED pdVars
    /\ UNCHANGED seqVars
    /\ UNCHANGED recipeVars

\* The serialisation is complete in run_write's temporary file.
RunWriteTemp(p) ==
    /\ pc = "w_write"
    /\ InContext(p)
    /\ \E t \in Dumps(data[p]) : tmp1' = t
    /\ pc' = "wt_open"
    /\ UNCHANGED <<cur, enabled, disk, tmp2, current, handed, data, nmut, seen,
                   nwrites, nExt, mods, outcome, error, exitCode>>
    /\ UNCHANGED pdVars
    /\ UNCHANGED seqVars
    /\ UNCHANGED recipeVars

\* Mutant: write_text opens dest itself for writing, without a writer.
WriteTextOpenInPlace(p) ==
    /\ pc = "wt_open"
    /\ InContext(p)
    /\ disk' = [disk EXCEPT ![p] = Partial]
    /\ tmp2' = Partial
    /\ pc' = "wt_write"
    /\ UNCHANGED <<cur, enabled, tmp1, current, handed, data, nmut, seen,
                   nwrites, nExt, mods, outcome, error, exitCode>>
    /\ UNCHANGED pdVars
    /\ UNCHANGED seqVars
    /\ UNCHANGED recipeVars

\* write_text: with writer(dest, overwrite=True) as temp: the temporary
\* file of write_text is opened for writing.
WriteTextOpen(p) ==
    /\ pc = "wt_open"
    /\ InContext(p)
    /\ tmp2' = Partial
    /\ pc' = "wt_write"
    /\ UNCHANGED <<cur, enabled, disk, tmp1, current, handed, data, nmut, seen,
                   nwrites, nExt, mods, outcome, error, exitCode>>
    /\ UNCHANGED pdVars
    /\ UNCHANGED seqVars
    /\ UNCHANGED recipeVars

\* The source write_text reads: run_write's temporary file, or the text
\* file's temporary file, whose body is the live data.
WriteTextSrc(p) == IF Kind(p) = "doc" THEN tmp1 ELSE Text(data[p], 0)

\* temp.write_text(src.read_text().rstrip("\n") + "\n")
WriteTextTemp(p) ==
    /\ pc = "wt_write"
    /\ InContext(p)
    /\ tmp2' = Normalise(WriteTextSrc(p))
    /\ pc' = "wt_move"
    /\ UNCHANGED <<cur, enabled, disk, tmp1, current, handed, data, nmut, seen,
                   nwrites, nExt, mods, outcome, error, exitCode>>
    /\ UNCHANGED pdVars
    /\ UNCHANGED seqVars
    /\ UNCHANGED recipeVars

\* The writer of write_text exits: its temporary file is renamed over dest.
WriteTextMove(p) ==
    /\ pc = "wt_move"
    /\ InContext(p)
    /\ disk' = [disk EXCEPT ![p] = tmp2]
    /\ tmp2' = Absent
    /\ nwrites' = [nwrites EXCEPT ![p] = @ + 1]
    /\ pc' = "wt_mod"
    /\ UNCHANGED <<cur, enabled, tmp1, current, handed, data, nmut, seen, nExt,
                   mods, outcome, error, exitCode>>
    /\ UNCHANGED pdVars
    /\ UNCHANGED seqVars
    /\ UNCHANGED recipeVars

\* Mutant: write_text forgets modifications.add(dest).
WriteTextNoRecord(p) ==
    /\ pc = "wt_mod"
    /\ InContext(p)
    /\ IF Kind(p) = "doc"
       THEN /\ pc' = "w_move"
            /\ UNCHANGED <<cur, outcome>>
       ELSE /\ pc' = "main"
            /\ cur' = cur + 1
            /\ outcome' = [outcome EXCEPT ![p] =
                              IF current[p].st = "absent" THEN "created" ELSE "written"]
    /\ UNCHANGED <<enabled, disk, tmp1, tmp2, current, handed, data, nmut, seen,
                   nwrites, nExt, mods, error, exitCode>>
    /\ UNCHANGED pdVars
    /\ UNCHANGED seqVars
    /\ UNCHANGED recipeVars

\* How a context that wrote ended.
WrittenAs(p) == IF current[p].st = "absent" THEN "created" ELSE "written"

\* modifications.add(dest); a text file's context ends here, a document's
\* goes on to the exit of run_write's writer.
WriteTextRecord(p) ==
    /\ pc = "wt_mod"
    /\ InContext(p)
    /\ mods' = mods \cup {p}
    /\ IF Kind(p) = "doc"
       THEN /\ pc' = "w_move"
            /\ UNCHANGED <<cur, outcome>>
       ELSE /\ pc' = "main"
            /\ cur' = cur + 1
            /\ outcome' = [outcome EXCEPT ![p] = WrittenAs(p)]
    /\ UNCHANGED <<enabled, disk, tmp1, tmp2, current, handed, data, nmut, seen,
                   nwrites, nExt, error, exitCode>>
    /\ UNCHANGED pdVars
    /\ UNCHANGED seqVars
    /\ UNCHANGED recipeVars

\* The writer of run_write exits: its temporary file, the unnormalised
\* serialisation, is renamed over the target write_text has just written.
RunWriteMove(p) ==
    /\ pc = "w_move"
    /\ InContext(p)
    /\ disk' = [disk EXCEPT ![p] = tmp1]
    /\ tmp1' = Absent
    /\ nwrites' = [nwrites EXCEPT ![p] = @ + 1]
    /\ pc' = "main"
    /\ cur' = cur + 1
    /\ outcome' = [outcome EXCEPT ![p] = WrittenAs(p)]
    /\ UNCHANGED <<enabled, tmp2, current, handed, data, nmut, seen, nExt, mods,
                   error, exitCode>>
    /\ UNCHANGED pdVars
    /\ UNCHANGED seqVars
    /\ UNCHANGED recipeVars

\* Mutant: the threshold is off by one.
ExitCodeOfTwo(m) == IF Cardinality(m) >= 2 THEN 1 ELSE 0

\* if len(modifications) >= 1: sys.exit(1); else _main returns.
ExitCodeOf(m) == IF Cardinality(m) >= 1 THEN 1 ELSE 0

MainExit ==
    /\ pc = "main"
    /\ cur = Len(Recipes) + 1
    /\ exitCode' = ExitCodeOf(mods)
    /\ pc' = "done"
    /\ UNCHANGED <<cur, enabled, disk, tmp1, tmp2, current, handed, data, nmut,
                   seen, nwrites, nExt, mods, outcome, error>>
    /\ UNCHANGED pdVars
    /\ UNCHANGED seqVars
    /\ UNCHANGED recipeVars

\* The process is killed (or the machine stops) between two steps.
Running == pc \notin {"start", "done", "aborted", "crashed"}

Crash ==
    /\ Running
    /\ pc' = "crashed"
    /\ UNCHANGED <<cur, enabled, disk, tmp1, tmp2, current, handed, data, nmut,
                   seen, nwrites, nExt, mods, outcome, error, exitCode>>
    /\ UNCHANGED pdVars
    /\ UNCHANGED seqVars
    /\ UNCHANGED recipeVars

\* Another process replaces the target while the closure runs.
ExternalWrite(p) ==
    /\ pc = "closure"
    /\ InContext(p)
    /\ nExt < MaxExt
    /\ \E t \in FullTexts :
          /\ t # disk[p]
          /\ disk' = [disk EXCEPT ![p] = t]
    /\ nExt' = nExt + 1
    /\ UNCHANGED <<pc, cur, enabled, tmp1, tmp2, current, handed, data, nmut,
                   seen, nwrites, mods, outcome, error, exitCode>>
    /\ UNCHANGED pdVars
    /\ UNCHANGED seqVars
    /\ UNCHANGED recipeVars

Next ==
    \/ EarlyReturn
    \/ Begin
    \/ SkipRecipe
    \/ MainExit
    \/ Crash
    \/ \E p \in Paths :
          \/ EnterContext(p)
          \/ Mutate(p)
          \/ ClosureRaise(p)
          \/ ClosureReturn(p)
          \/ Compare(p)
          \/ RunWriteDumps(p)
          \/ RunWriteTemp(p)
          \/ WriteTextOpen(p)
          \/ WriteTextTemp(p)
          \/ WriteTextMove(p)
          \/ WriteTextRecord(p)
          \/ RunWriteMove(p)

\* ---------------------------------------------------------------- claims

\* The context of p has been entered.
Entered(p) == outcome[p] # "none"
\* The context of p has ended without an exception.
Exited(p) == outcome[p] \in {"unchanged", "written", "created"}
\* The closure of p has returned and the comparison has been made.
Compared(p) ==
    \/ outcome[p] \in {"unchanged", "written", "created", "failed"}
    \/ /\ InContext(p)
       /\ pc \in {"w_dumps", "w_write", "wt_open", "wt_write", "wt_move",
                  "wt_mod", "w_move"}
\* The file p holds is a complete serialisation of document d.
Holds(p, d) == disk[p] \in Dumps(d)

\* C1: when _main reaches its end, the exit code is 1 iff the
\* ModificationSet is non-empty, and 0 when it is empty.
C1_ExitCode ==
    pc = "done" =>
        /\ (exitCode = 1) <=> (mods # {})
        /\ (mods = {}) => (exitCode = 0)

C1_Witness ==
    /\ pc = "done"
    /\ exitCode = 1
    /\ Cardinality(mods) = 1
    /\ \E p \in Paths : outcome[p] = "unchanged"

\* C2: a context whose file exists and whose document, once the closure has
\* returned, equals the parsed file on disk never writes the target: the
\* file is the one read on entry, the path is not recorded, and the context
\* ends as "unchanged".
C2_Unchanged ==
    \A p \in Paths :
        (Compared(p) /\ current[p].st = "full" /\ data[p] = Loads(seen[p])) =>
            /\ nwrites[p] = 0
            /\ disk[p] = current[p]
            /\ p \notin mods
            /\ outcome[p] = "unchanged"

C2_Witness ==
    \E p \in Paths :
        /\ Kind(p) = "doc"
        /\ outcome[p] = "unchanged"
        /\ nmut[p] = 2
        /\ current[p].st = "full"

\* C3: a context whose file exists, whose document differs from the parsed
\* file once the closure has returned, and which ends without an exception
\* ends as "written": the target holds a complete serialisation of the
\* mutated document and the path is recorded.
C3_Written ==
    \A p \in Paths :
        (Exited(p) /\ current[p].st = "full" /\ data[p] # Loads(seen[p])) =>
            /\ outcome[p] = "written"
            /\ Holds(p, data[p])
            /\ Loads(disk[p]) = data[p]
            /\ nwrites[p] >= 1
            /\ p \in mods

C3_Witness ==
    \E p \in Paths :
        /\ Kind(p) = "doc"
        /\ outcome[p] = "written"
        /\ disk[p] # current[p]
        /\ p \in mods

\* C4: a context whose file is absent hands the closure the default
\* document, and when it ends without an exception it ends as "created":
\* the file exists, holds the document, and the path is recorded. A closure
\* that mutates nothing always ends so.
C4_Created ==
    \A p \in Paths :
        (Entered(p) /\ current[p].st = "absent") =>
            /\ handed[p] = GetDefault
            /\ Exited(p) =>
                  /\ outcome[p] = "created"
                  /\ Holds(p, data[p])
                  /\ p \in mods
            /\ (nmut[p] = 0 /\ outcome[p] \notin {"open", "raised"}) =>
                  /\ outcome[p] = "created"
                  /\ Holds(p, GetDefault)
                  /\ p \in mods

C4_Witness ==
    \E p \in Paths :
        /\ Kind(p) = "doc"
        /\ current[p].st = "absent"
        /\ nmut[p] = 0
        /\ outcome[p] = "created"
        /\ disk[p].st = "full"
        /\ p \in mods

\* C5: the decision to write compares the mutated document with the file as
\* it is on disk when the closure returns: the context of a document ends
\* "unchanged" exactly when the document equals that re-read content.
C5_ComparesReread ==
    \A p \in Paths :
        (Kind(p) = "doc" /\ current[p].st = "full" /\ Compared(p)) =>
            ((outcome[p] = "unchanged") <=> (data[p] = Loads(seen[p])))

\* C6: when the closure raises, the exception leaves the context and ends
\* the run; the target is as it was on entry (still absent, if it was), no
\* write was made, no temporary file is left and the path is not recorded.
C6_ClosureRaises ==
    \A p \in Paths :
        outcome[p] = "raised" =>
            /\ pc = "aborted"
            /\ error = "closure"
            /\ disk[p] = current[p]
            /\ nwrites[p] = 0
            /\ tmp1 = Absent
            /\ tmp2 = Absent
            /\ p \notin mods

C6_Witness ==
    \E p \in Paths :
        /\ outcome[p] = "raised"
        /\ current[p].st = "absent"
        /\ disk[p].st = "absent"
        /\ nmut[p] >= 1

\* C7: when dumps raises in the write step, the target is byte for byte the
\* file read on entry (or still absent), never a partial file, and the path
\* is not recorded.
C7_DumpsRaises ==
    \A p \in Paths :
        outcome[p] = "failed" =>
            /\ pc = "aborted"
            /\ error = "dumps"
            /\ disk[p] = current[p]
            /\ disk[p].st # "partial"
            /\ nwrites[p] = 0
            /\ p \notin mods

C7_Witness ==
    \E p \in Paths :
        /\ outcome[p] = "failed"
        /\ current[p].st = "full"
        /\ ~Serializable(data[p])

\* C8: in every state, a crash at any step included, every target holds
\* either what it held when its context was entered or a complete
\* serialisation of the context's document, never a partial file; a file
\* left half written is a temporary file.
C8_Atomic ==
    \A p \in Paths :
        /\ disk[p].st # "partial"
        /\ ~Entered(p) => nwrites[p] = 0
        /\ Entered(p) => (disk[p] = current[p] \/ Holds(p, data[p]))

C8_Witness ==
    \E p \in Paths :
        /\ pc = "crashed"
        /\ InContext(p)
        /\ tmp1.st = "full"
        /\ tmp2 = Partial
        /\ disk[p] = current[p]
        /\ current[p].st = "full"

\* ------------------------------------------------------- is_partial_dict

\* Python values: a scalar, None, or a dict (a function from its keys).
Keys == {"a", "b"}
None == <<"n", 0>>
Scalar(n) == <<"s", n>>
Dict(f) == <<"d", f>>
IsDict(v) == v[1] = "d"
Items(v) == v[2]
KeySet(v) == DOMAIN v[2]

Scalars == {Scalar(n) : n \in 1..MaxScalar}
DictsOver(vals) == {Dict(f) : f \in UNION {[S -> vals] : S \in SUBSET Keys}}
FlatDicts == DictsOver(Scalars)
Dicts == DictsOver(Scalars \cup FlatDicts)
EmptyDict == Dict([k \in {} |-> None])

PdIdle ==
    /\ obj = None
    /\ dict_ = EmptyDict
    /\ result = "none"

PdInit ==
    /\ obj \in Dicts \cup {None, Scalar(1)}
    /\ dict_ \in Dicts
    /\ result = "none"

\* Mutant: a key of obj that dict_ lacks is let through.
KeyErrorResultTrue == TRUE

\* except KeyError: results[key] = False
KeyErrorResult == FALSE

\* Mutant: two dicts are compared with == instead of recursively.
ValueResultEq(obj_value, dict_value) == obj_value = dict_value

RECURSIVE is_partial_dict(_, _)
\* results[key] for a key both hold: the recursion into two dicts, else ==.
ValueResult(obj_value, dict_value) ==
    IF IsDict(obj_value) /\ IsDict(dict_value)
    THEN is_partial_dict(obj_value, dict_value)
    ELSE obj_value = dict_value

is_partial_dict(o, d) ==
    IF ~IsDict(o)
    THEN FALSE
    ELSE LET results == [key \in KeySet(o) |->
                            IF key \notin KeySet(d)
                            THEN KeyErrorResult
                            ELSE ValueResult(Items(o)[key], Items(d)[key])]
         IN \A key \in DOMAIN results : results[key]

\* The boolean a call returned, as the run records it.
Bool(b) == IF b THEN "True" ELSE "False"

CallIsPartialDict ==
    /\ result = "none"
    /\ result' = Bool(is_partial_dict(obj, dict_))
    /\ UNCHANGED <<obj, dict_>>
    /\ UNCHANGED ctxVars
    /\ UNCHANGED seqVars
    /\ UNCHANGED recipeVars

\* ------------------------------------------------- claims: is_partial_dict

\* Values of the two arguments under one key.
ObjValue(k) == Items(obj)[k]
DictValue(k) == Items(dict_)[k]

\* The rule one level down, written out for dicts that hold scalars only:
\* every key of o is a key of d with an equal value.
FlatMatch(o, d) ==
    \A j \in KeySet(o) : j \in KeySet(d) /\ Items(o)[j] = Items(d)[j]

\* The values under a key both arguments hold match: two mappings by the
\* rule one level down, anything else by equality.
KeyMatches(k) ==
    \/ IsDict(ObjValue(k)) /\ IsDict(DictValue(k)) /\ FlatMatch(ObjValue(k), DictValue(k))
    \/ ObjValue(k) = DictValue(k)

\* C9: is_partial_dict(obj, dict_) is true iff obj is a mapping and every
\* key of obj is a key of dict_ whose two values are mappings that match
\* or are equal; so an empty obj matches every dict_, a non-mapping obj
\* matches none, and a key of obj missing from dict_ makes it false.
C9_Characterisation ==
    result # "none" =>
        /\ result = Bool(IsDict(obj) /\ \A k \in KeySet(obj) :
                                            k \in KeySet(dict_) /\ KeyMatches(k))
        /\ obj = EmptyDict => result = "True"
        /\ ~IsDict(obj) => result = "False"
        /\ (IsDict(obj) /\ KeySet(obj) \ KeySet(dict_) # {}) => result = "False"

C9_Witness ==
    /\ result = "True"
    /\ \E k \in KeySet(obj) :
          /\ IsDict(ObjValue(k))
          /\ ObjValue(k) # DictValue(k)
    /\ \E k \in KeySet(obj) : ~IsDict(ObjValue(k))

\* C10 as stated: a key of the candidate (obj) that the spec (dict_) lacks
\* is unconstrained, so the candidate matches whenever every key both hold
\* matches.
C10_ExtraKeysUnconstrained ==
    (result # "none" /\ IsDict(obj)
        /\ \A k \in KeySet(obj) \cap KeySet(dict_) : KeyMatches(k)) =>
        result = "True"

\* C10 amended: a key of the candidate that the spec lacks makes the result
\* false; it is the keys of the spec that the candidate lacks that are
\* unconstrained: the candidate matches whenever each of its keys is a key
\* of the spec and matches, whatever else the spec holds.
C10_SpecKeysUnconstrained ==
    (result # "none" /\ IsDict(obj)) =>
        /\ (\E k \in KeySet(obj) : k \notin KeySet(dict_)) => result = "False"
        /\ (\A k \in KeySet(obj) : k \in KeySet(dict_) /\ KeyMatches(k)) =>
              result = "True"

C10_Witness ==
    /\ result = "True"
    /\ KeySet(obj) # {}
    /\ KeySet(dict_) \ KeySet(obj) # {}

\* ------------------------------------------------- the mutation helpers

\* Values of an Array are scalars (rule codes, paths); the tables of an AoT
\* are dicts; the dicts of a list (steps, repos, hooks) hold scalars.
Tables == {Dict([k \in {"a"} |-> v]) : v \in Scalars}
ListDicts == DictsOver({Scalar(1), Scalar(2)})
ElemsOf(kind) == IF kind = "aot" THEN Tables ELSE Scalars
SeqsOver(S, n) == UNION {[1..m -> S] : m \in 0..n}

SeqIdle ==
    /\ container = <<>>
    /\ ckind = "list"
    /\ objs = <<>>
    /\ partial = EmptyDict
    /\ extra = EmptyDict
    /\ calls = <<>>

\* An Array or an AoT and the values of the calls made on it.
EnsureInit ==
    /\ ckind \in {"array", "aot"}
    /\ container \in SeqsOver(ElemsOf(ckind), MaxLen)
    /\ objs \in SeqsOver(ElemsOf(ckind), MaxArgs)
    /\ partial = EmptyDict
    /\ extra = EmptyDict
    /\ calls = <<>>

\* A list of dicts and the partial and extra of the calls made on it.
PartialInit ==
    /\ ckind = "list"
    /\ container \in SeqsOver(ListDicts, MaxDicts)
    /\ objs = <<>>
    /\ partial \in ListDicts
    /\ extra \in ListDicts
    /\ calls = <<>>

\* obj in array
Contains(s, v) == \E i \in DOMAIN s : s[i] = v

\* Mutant: every value is appended, present or not.
AppendAll(s, vs) == s \o vs

\* Mutant: presence is tested against the array as it was before the call.
AppendMissingStale(s, vs) == s \o SelectSeq(vs, LAMBDA v : ~Contains(s, v))

\* for obj in objs: if obj not in array: array.append(obj)
RECURSIVE AppendMissing(_, _)
AppendMissing(s, vs) ==
    IF vs = <<>>
    THEN s
    ELSE AppendMissing(IF Contains(s, Head(vs)) THEN s ELSE Append(s, Head(vs)),
                       Tail(vs))

\* What a helper call leaves: the container, the element it returned (its
\* index in the container, 0 for none) and the exception it raised.
Outcome(s, r, e) == [seq |-> s, ret |-> r, err |-> e]

\* Mutant: the isinstance(array, AoT) test is missing.
EnsureContainsUnchecked(kind, s, vs) == Outcome(AppendMissing(s, vs), 0, "none")

ensure_contains(kind, s, vs) ==
    IF kind = "aot"
    THEN Outcome(s, 0, "TypeError")
    ELSE Outcome(AppendMissing(s, vs), 0, "none")

ensure_aot_contains(s, ts) == Outcome(AppendMissing(s, ts), 0, "none")

\* Mutant: the last occurrence is taken.
LastIndex(s, v) == CHOOSE i \in DOMAIN s : s[i] = v /\ \A j \in DOMAIN s : j > i => s[j] # v

\* next(i for i, o in enumerate(array) if o == obj)
FirstIndex(s, v) == CHOOSE i \in DOMAIN s : s[i] = v /\ \A j \in DOMAIN s : j < i => s[j] # v

\* del array[index]
DelAt(s, i) == SubSeq(s, 1, i - 1) \o SubSeq(s, i + 1, Len(s))

\* for obj in objs: the first occurrence is deleted; StopIteration is passed.
RECURSIVE RemoveFirsts(_, _)
RemoveFirsts(s, vs) ==
    IF vs = <<>>
    THEN s
    ELSE RemoveFirsts(IF Contains(s, Head(vs)) THEN DelAt(s, FirstIndex(s, Head(vs))) ELSE s,
                      Tail(vs))

ensure_not_contains(s, vs) == Outcome(RemoveFirsts(s, vs), 0, "none")

\* Mutant: the arguments of is_partial_dict are exchanged.
MatchesElementSwapped(d, i) == is_partial_dict(i, d)

\* is_partial_dict(dict_, i): the partial is the first argument, the element
\* of the iterable the second.
MatchesElement(d, i) == is_partial_dict(d, i)

Matching(s, d) == {i \in DOMAIN s : MatchesElement(d, s[i])}

\* Mutant: the first match is returned when several match.
GetPartialDictFirst(s, d) ==
    IF Matching(s, d) = {}
    THEN Outcome(s, 0, "OneEmptyError")
    ELSE Outcome(s, CHOOSE i \in Matching(s, d) : \A j \in Matching(s, d) : i <= j, "none")

\* one(i for i in iterable if is_partial_dict(dict_, i)); both errors are
\* raised again.
get_partial_dict(s, d) ==
    IF Matching(s, d) = {}
    THEN Outcome(s, 0, "OneEmptyError")
    ELSE IF Cardinality(Matching(s, d)) > 1
         THEN Outcome(s, 0, "OneNonUniqueError")
         ELSE Outcome(s, CHOOSE i \in Matching(s, d) : TRUE, "none")

\* Mutant: partial wins on a key both hold.
MergePartialWins(p, e) ==
    Dict([k \in KeySet(p) \cup KeySet(e) |->
            IF k \in KeySet(p) THEN Items(p)[k] ELSE Items(e)[k]])

\* partial | ({} if extra is None else extra)
Merge(p, e) ==
    Dict([k \in KeySet(p) \cup KeySet(e) |->
            IF k \in KeySet(e) THEN Items(e)[k] ELSE Items(p)[k]])

\* Mutant: except (OneEmptyError, OneNonUniqueError).
EnsureContainsPartialCatchAll(s, p, e) ==
    IF get_partial_dict(s, p).err # "none"
    THEN Outcome(Append(s, Merge(p, e)), Len(s) + 1, "none")
    ELSE get_partial_dict(s, p)

\* try: return get_partial_dict(...); except OneEmptyError: append and
\* return partial | extra.
ensure_contains_partial(s, p, e) ==
    IF get_partial_dict(s, p).err = "OneEmptyError"
    THEN Outcome(Append(s, Merge(p, e)), Len(s) + 1, "none")
    ELSE get_partial_dict(s, p)

\* A call is recorded with the container before and after it.
Record(op, out) ==
    /\ container' = out.seq
    /\ calls' = Append(calls, [op |-> op, before |-> container, after |-> out.seq,
                               ret |-> out.ret, err |-> out.err])

CallEnsureContains ==
    /\ Len(calls) < MaxCalls
    /\ ckind \in {"array", "aot"}
    /\ Record("ensure_contains", ensure_contains(ckind, container, objs))
    /\ UNCHANGED <<ckind, objs, partial, extra>>
    /\ UNCHANGED ctxVars
    /\ UNCHANGED pdVars
    /\ UNCHANGED recipeVars

CallEnsureAotContains ==
    /\ Len(calls) < MaxCalls
    /\ ckind = "aot"
    /\ Record("ensure_aot_contains", ensure_aot_contains(container, objs))
    /\ UNCHANGED <<ckind, objs, partial, extra>>
    /\ UNCHANGED ctxVars
    /\ UNCHANGED pdVars
    /\ UNCHANGED recipeVars

CallEnsureNotContains ==
    /\ Len(calls) < MaxCalls
    /\ ckind \in {"array", "aot"}
    /\ Record("ensure_not_contains", ensure_not_contains(container, objs))
    /\ UNCHANGED <<ckind, objs, partial, extra>>
    /\ UNCHANGED ctxVars
    /\ UNCHANGED pdVars
    /\ UNCHANGED recipeVars

CallGetPartialDict ==
    /\ Len(calls) < MaxCalls
    /\ ckind = "list"
    /\ Record("get_partial_dict", get_partial_dict(container, partial))
    /\ UNCHANGED <<ckind, objs, partial, extra>>
    /\ UNCHANGED ctxVars
    /\ UNCHANGED pdVars
    /\ UNCHANGED recipeVars

CallEnsureContainsPartial ==
    /\ Len(calls) < MaxCalls
    /\ ckind = "list"
    /\ Record("ensure_contains_partial", ensure_contains_partial(container, partial, extra))
    /\ UNCHANGED <<ckind, objs, partial, extra>>
    /\ UNCHANGED ctxVars
    /\ UNCHANGED pdVars
    /\ UNCHANGED recipeVars

\* ----------------------------------------- claims: the ensure_* helpers

\* The calls of one helper made so far.
CallsOf(op) == {i \in DOMAIN calls : calls[i].op = op}

\* How often v occurs in s.
Count(s, v) == Cardinality({j \in DOMAIN s : s[j] = v})

\* What a call appended.
Suffix(c) == SubSeq(c.after, Len(c.before) + 1, Len(c.after))

\* Where v is first passed in the call.
FirstArg(v) == CHOOSE a \in DOMAIN objs : objs[a] = v /\ \A b \in DOMAIN objs : b < a => objs[b] # v

\* C14 as stated: after two ensure_contains calls with a value, one after
\* the other, any sequence contains exactly one copy of the value.
C14_TwiceOneCopy ==
    \A i \in CallsOf("ensure_contains") :
        (i + 1 \in CallsOf("ensure_contains") /\ calls[i].err = "none") =>
            \A a \in DOMAIN objs : Count(calls[i + 1].after, objs[a]) = 1

\* C14: after two ensure_contains calls with a value, one after the
\* other, a sequence that held at most one copy of the value contains
\* exactly one copy, and a sequence that held several copies still holds
\* as many: the calls add a copy only when there is none.
C14_TwiceOneCopyUnlessDuplicated ==
    \A i \in CallsOf("ensure_contains") :
        (i + 1 \in CallsOf("ensure_contains") /\ calls[i].err = "none") =>
            \A a \in DOMAIN objs :
                /\ Count(calls[i].before, objs[a]) <= 1 => Count(calls[i + 1].after, objs[a]) = 1
                /\ Count(calls[i].before, objs[a]) > 1 =>
                      Count(calls[i + 1].after, objs[a]) = Count(calls[i].before, objs[a])

\* A value the sequence lacked is there once after the two calls.
C14_Witness ==
    \E i \in CallsOf("ensure_contains") :
        /\ i + 1 \in CallsOf("ensure_contains")
        /\ calls[i].before # <<>>
        /\ \E a \in DOMAIN objs :
              /\ Count(calls[i].before, objs[a]) = 0
              /\ Count(calls[i + 1].after, objs[a]) = 1

\* C15: ensure_contains only appends: the sequence before the call is a
\* prefix of the sequence after it, and what is appended is the given
\* values that were not present, each once, in argument order.
C15_OnlyAppends ==
    \A i \in CallsOf("ensure_contains") :
        /\ SubSeq(calls[i].after, 1, Len(calls[i].before)) = calls[i].before
        /\ \A j \in DOMAIN Suffix(calls[i]) :
              /\ Contains(objs, Suffix(calls[i])[j])
              /\ ~Contains(calls[i].before, Suffix(calls[i])[j])
              /\ Count(Suffix(calls[i]), Suffix(calls[i])[j]) = 1
              /\ \A k \in DOMAIN Suffix(calls[i]) :
                    j < k => FirstArg(Suffix(calls[i])[j]) < FirstArg(Suffix(calls[i])[k])
        /\ calls[i].err = "none" =>
              \A a \in DOMAIN objs :
                  ~Contains(calls[i].before, objs[a]) => Contains(Suffix(calls[i]), objs[a])

\* A value passed twice that the sequence lacked is appended once.
C15_Witness ==
    \E i \in CallsOf("ensure_contains") :
        /\ calls[i].before # <<>>
        /\ Len(objs) = 2
        /\ objs[1] = objs[2]
        /\ Len(calls[i].after) = Len(calls[i].before) + 1

\* C16: ensure_contains on an AoT raises TypeError before it appends
\* anything, so the sequence is unchanged; ensure_aot_contains appends a
\* table to an AoT only if no equal table is present.
C16_AotTypeError ==
    /\ \A i \in CallsOf("ensure_contains") :
          ckind = "aot" => calls[i].err = "TypeError" /\ calls[i].after = calls[i].before
    /\ \A i \in CallsOf("ensure_aot_contains") :
          /\ calls[i].err = "none"
          /\ SubSeq(calls[i].after, 1, Len(calls[i].before)) = calls[i].before
          /\ \A a \in DOMAIN objs :
                /\ Contains(calls[i].before, objs[a]) =>
                      Count(calls[i].after, objs[a]) = Count(calls[i].before, objs[a])
                /\ ~Contains(calls[i].before, objs[a]) => Count(calls[i].after, objs[a]) = 1

\* ensure_contains is refused a table the AoT lacks, and
\* ensure_aot_contains then appends it.
C16_Witness ==
    /\ ckind = "aot"
    /\ Len(calls) = 2
    /\ calls[1].op = "ensure_contains"
    /\ calls[1].err = "TypeError"
    /\ \E a \in DOMAIN objs : ~Contains(calls[1].before, objs[a])
    /\ calls[2].op = "ensure_aot_contains"
    /\ Len(calls[2].after) > Len(calls[2].before)

\* How often v is passed in the call.
Passed(v) == Count(objs, v)

\* The positions of s that survive: those whose element has been seen, up
\* to and including the position, more often than it is passed.
Kept(s) == {j \in DOMAIN s : Cardinality({k \in 1..j : s[k] = s[j]}) > Passed(s[j])}

\* The n-th smallest member of a set of positions.
Nth(S, n) == CHOOSE j \in S : Cardinality({k \in S : k < j}) = n - 1

\* C17: ensure_not_contains removes, for each value passed, the first
\* occurrence of the value if there is one and nothing otherwise; it never
\* fails, leaves later duplicates in place and keeps the order of the
\* elements that remain.
C17_RemovesFirst ==
    \A i \in CallsOf("ensure_not_contains") :
        /\ calls[i].err = "none"
        /\ Len(calls[i].after) = Cardinality(Kept(calls[i].before))
        /\ \A n \in DOMAIN calls[i].after :
              calls[i].after[n] = calls[i].before[Nth(Kept(calls[i].before), n)]

\* The first of two copies of a value is removed, the copy behind another
\* element stays.
C17_Witness ==
    \E i \in CallsOf("ensure_not_contains") :
        /\ Len(objs) = 1
        /\ Len(calls[i].before) = 3
        /\ calls[i].before[1] = objs[1]
        /\ calls[i].before[2] # objs[1]
        /\ calls[i].before[3] = objs[1]
        /\ calls[i].after = <<calls[i].before[2], calls[i].before[3]>>

\* ------------------------------------------- claims: get_partial_dict

\* The elements of s that carry every key of d with an equal value.
Carrying(s, d) == {j \in DOMAIN s : FlatMatch(d, s[j])}

\* C11: get_partial_dict returns the matching element when exactly one
\* element matches, raises OneEmptyError when none matches and
\* OneNonUniqueError when several match; the sequence is unchanged.
C11_OneMatchOrError ==
    \A i \in CallsOf("get_partial_dict") :
        /\ calls[i].after = calls[i].before
        /\ Cardinality(Carrying(calls[i].before, partial)) = 1 =>
              calls[i].err = "none" /\ calls[i].ret \in Carrying(calls[i].before, partial)
        /\ Carrying(calls[i].before, partial) = {} =>
              calls[i].err = "OneEmptyError" /\ calls[i].ret = 0
        /\ Cardinality(Carrying(calls[i].before, partial)) > 1 =>
              calls[i].err = "OneNonUniqueError" /\ calls[i].ret = 0

\* The second of two elements is the one match and is returned.
C11_Witness ==
    \E i \in CallsOf("get_partial_dict") :
        /\ Len(calls[i].before) = 2
        /\ calls[i].err = "none"
        /\ calls[i].ret = 2

\* The elements e of s for which is_partial_dict(e, d) holds, the element
\* being the first argument.
ElementFirst(s, d) == {j \in DOMAIN s : is_partial_dict(s[j], d)}

\* The elements e of s for which is_partial_dict(d, e) holds, the partial
\* being the first argument.
PartialFirst(s, d) == {j \in DOMAIN s : is_partial_dict(d, s[j])}

\* What get_partial_dict does when the elements of `selected` are the ones
\* it selects.
Selects(c, selected) ==
    /\ selected = {} <=> c.err = "OneEmptyError"
    /\ Cardinality(selected) > 1 <=> c.err = "OneNonUniqueError"
    /\ Cardinality(selected) = 1 <=> c.err = "none" /\ c.ret \in selected

\* C12 as stated: get_partial_dict selects exactly the elements e with
\* is_partial_dict(e, spec), the element being the first argument.
C12_SelectsElementFirst ==
    \A i \in CallsOf("get_partial_dict") :
        Selects(calls[i], ElementFirst(calls[i].before, partial))

\* C12: get_partial_dict selects exactly the elements e with
\* is_partial_dict(spec, e), the partial being the first argument and the
\* element the second.
C12_SelectsPartialFirst ==
    \A i \in CallsOf("get_partial_dict") :
        Selects(calls[i], PartialFirst(calls[i].before, partial))

\* An element is returned that the partial does not match as the second
\* argument: it carries a key the partial lacks.
C12_Witness ==
    \E i \in CallsOf("get_partial_dict") :
        /\ calls[i].err = "none"
        /\ ~is_partial_dict(calls[i].before[calls[i].ret], partial)
        /\ is_partial_dict(partial, calls[i].before[calls[i].ret])

\* C13: get_partial_dict finds the one element that carries every key of
\* the partial with an equal value even when that element has keys the
\* partial does not mention, and returns that very element.
C13_FoundDespiteExtraKeys ==
    \A i \in CallsOf("get_partial_dict") :
        \A j \in DOMAIN calls[i].before :
            (/\ Carrying(calls[i].before, partial) = {j}
             /\ KeySet(calls[i].before[j]) \ KeySet(partial) # {})
            => /\ calls[i].err = "none"
               /\ calls[i].ret = j
               /\ calls[i].after[j] = calls[i].before[j]

\* {"a": 1, "b": 2} is found by {"a": 1} next to an element without "a".
C13_Witness ==
    \E i \in CallsOf("get_partial_dict") :
        /\ partial = Dict([k \in {"a"} |-> Scalar(1)])
        /\ Len(calls[i].before) = 2
        /\ calls[i].err = "none"
        /\ KeySet(calls[i].before[calls[i].ret]) = {"a", "b"}
        /\ \E j \in DOMAIN calls[i].before : "a" \notin KeySet(calls[i].before[j])

\* ------------------------------------ claims: ensure_contains_partial

\* m holds the keys of p and of e, each with e's value where e has the key
\* and with p's value otherwise.
IsMerged(m, p, e) ==
    /\ IsDict(m)
    /\ KeySet(m) = KeySet(p) \cup KeySet(e)
    /\ \A k \in KeySet(e) : Items(m)[k] = Items(e)[k]
    /\ \A k \in KeySet(p) \ KeySet(e) : Items(m)[k] = Items(p)[k]

\* C18: when no element matches, ensure_contains_partial appends one new
\* element, the partial merged with extra (extra wins on a key both hold),
\* and returns it; when exactly one element matches it returns that
\* element and changes neither it nor the sequence.
C18_AppendsOrReturns ==
    \A i \in CallsOf("ensure_contains_partial") :
        /\ Carrying(calls[i].before, partial) = {} =>
              /\ calls[i].err = "none"
              /\ Len(calls[i].after) = Len(calls[i].before) + 1
              /\ SubSeq(calls[i].after, 1, Len(calls[i].before)) = calls[i].before
              /\ IsMerged(calls[i].after[Len(calls[i].after)], partial, extra)
              /\ calls[i].ret = Len(calls[i].after)
        /\ Cardinality(Carrying(calls[i].before, partial)) = 1 =>
              /\ calls[i].err = "none"
              /\ calls[i].after = calls[i].before
              /\ calls[i].ret \in Carrying(calls[i].before, partial)

\* An element is appended to a non-empty list where partial and extra
\* hold a key with different values.
C18_Witness ==
    \E i \in CallsOf("ensure_contains_partial") :
        /\ calls[i].before # <<>>
        /\ Len(calls[i].after) = Len(calls[i].before) + 1
        /\ \E k \in KeySet(partial) \cap KeySet(extra) : Items(partial)[k] # Items(extra)[k]

\* C19: two calls of ensure_contains_partial, one after the other, with
\* the same partial and extra on a sequence with at most one match leave
\* exactly one element for the partial and return the same element, for
\* every partial and every extra.
C19_TwiceOneElement ==
    \A i \in CallsOf("ensure_contains_partial") :
        (/\ i + 1 \in CallsOf("ensure_contains_partial")
         /\ Cardinality(Carrying(calls[i].before, partial)) <= 1)
        => /\ calls[i].err = "none"
           /\ calls[i + 1].err = "none"
           /\ calls[i + 1].ret = calls[i].ret
           /\ calls[i + 1].after = calls[i].after
           /\ Cardinality(Carrying(calls[i + 1].after, partial)) = 1

\* C20: when several elements match, ensure_contains_partial raises
\* OneNonUniqueError: it returns none of them, appends nothing and leaves
\* the sequence unchanged.
C20_AmbiguousRaises ==
    \A i \in CallsOf("ensure_contains_partial") :
        Cardinality(Carrying(calls[i].before, partial)) > 1 =>
            /\ calls[i].err = "OneNonUniqueError"
            /\ calls[i].ret = 0
            /\ calls[i].after = calls[i].before

\* Two different elements both match a partial that is not empty.
C20_Witness ==
    \E i \in CallsOf("ensure_contains_partial") :
        /\ Len(calls[i].before) = 2
        /\ calls[i].before[1] # calls[i].before[2]
        /\ partial # EmptyDict
        /\ calls[i].err = "OneNonUniqueError"

\* ------------------------------------------- claims: mutations twice

\* C23: a sequence M of mutation-helper calls applied twice in a row to a
\* document leaves what applying it once leaves. Stated for the shortest
\* M, one helper call: the same call made a second time changes nothing
\* and ends as the first did, on the element the first returned.
C23_TwiceAsOnce ==
    \A i \in DOMAIN calls :
        (i + 1 \in DOMAIN calls /\ calls[i + 1].op = calls[i].op) =>
            /\ calls[i + 1].after = calls[i].after
            /\ calls[i].err = "none" =>
                  calls[i + 1].err = "none" /\ calls[i + 1].ret = calls[i].ret

\* ------------------------------------------- the get-or-create accessors

\* The keys of the parent container and what a container can hold.
AccKeys == {"k1", "k2"}
AccItems == {"x"}

\* A YAML or JSON mapping holds dicts, lists and scalars and is reached
\* with get_dict and get_list; a TOML container holds Tables, Arrays, AoTs
\* and scalars and is reached with get_table, get_array and get_aot.
KindsOf(fmt) == IF fmt = "yaml" THEN {"dict", "list"} ELSE {"table", "array", "aot"}

\* What a key holds: nothing, a scalar, or a container (an object with an
\* identity and contents).
NoValue == [kind |-> "absent", id |-> 0, items |-> {}]
ScalarValue == [kind |-> "scalar", id |-> 0, items |-> {}]
Held(kind, id, items) == [kind |-> kind, id |-> id, items |-> items]
KeyId(k) == IF k = "k1" THEN 1 ELSE 2
ValuesAt(fmt, k) ==
    {NoValue, ScalarValue}
        \cup {Held(c, KeyId(k), it) : c \in KindsOf(fmt), it \in SUBSET AccItems}

\* isinstance(obj, cls): a Table is a dict, an Array and an AoT are lists.
IsInstance(kind, cls) ==
    \/ kind = cls
    \/ cls = "dict" /\ kind = "table"
    \/ cls = "list" /\ kind \in {"array", "aot"}

\* The parent as a recipe finds it in the file that was read.
AccInit ==
    /\ acc \in [fmt : {"yaml", "toml"},
                parent : [AccKeys -> UNION {ValuesAt(f, k) : f \in {"yaml", "toml"}, k \in AccKeys}],
                nextId : {Cardinality(AccKeys) + 1},
                calls : {<<>>}]
    /\ \A k \in AccKeys : acc.parent[k] \in ValuesAt(acc.fmt, k)

\* Mutant: container[key] = default, whatever the key holds.
GetOrCreateAssign(par, key, cls, id) ==
    [parent |-> [par EXCEPT ![key] = Held(cls, id, {})], ret |-> id, err |-> "none"]

\* Mutant: container.setdefault(key, default) without ensure_class.
GetOrCreateUnchecked(par, key, cls, id) ==
    IF par[key].kind = "absent"
    THEN [parent |-> [par EXCEPT ![key] = Held(cls, id, {})], ret |-> id, err |-> "none"]
    ELSE [parent |-> par, ret |-> par[key].id, err |-> "none"]

\* ensure_class(container.setdefault(key, default), cls): setdefault stores
\* the default under an absent key and returns what the key holds;
\* ensure_class raises when that is not an instance of cls.
GetOrCreate(par, key, cls, id) ==
    IF par[key].kind = "absent"
    THEN [parent |-> [par EXCEPT ![key] = Held(cls, id, {})], ret |-> id, err |-> "none"]
    ELSE IF IsInstance(par[key].kind, cls)
         THEN [parent |-> par, ret |-> par[key].id, err |-> "none"]
         ELSE [parent |-> par, ret |-> 0, err |-> "EnsureClassError"]

get_aot(par, key, id) == GetOrCreate(par, key, "aot", id)
get_array(par, key, id) == GetOrCreate(par, key, "array", id)
get_dict(par, key, id) == GetOrCreate(par, key, "dict", id)
get_list(par, key, id) == GetOrCreate(par, key, "list", id)
get_table(par, key, id) == GetOrCreate(par, key, "table", id)

\* An accessor call is recorded with the parent before and after it.
AccRecord(cls, key, out) ==
    acc' = [acc EXCEPT !.parent = out.parent,
                       !.nextId = IF out.ret = acc.nextId THEN acc.nextId + 1 ELSE acc.nextId,
                       !.calls = Append(acc.calls,
                                        [op |-> cls, key |-> key, before |-> acc.parent,
                                         after |-> out.parent, ret |-> out.ret,
                                         err |-> out.err])]

CallGetAot ==
    /\ Len(acc.calls) < MaxCalls
    /\ acc.fmt = "toml"
    /\ \E key \in AccKeys : AccRecord("aot", key, get_aot(acc.parent, key, acc.nextId))
    /\ UNCHANGED <<bump, hooks, run, ruff>>
    /\ UNCHANGED <<ctxVars, pdVars, seqVars>>

CallGetArray ==
    /\ Len(acc.calls) < MaxCalls
    /\ acc.fmt = "toml"
    /\ \E key \in AccKeys : AccRecord("array", key, get_array(acc.parent, key, acc.nextId))
    /\ UNCHANGED <<bump, hooks, run, ruff>>
    /\ UNCHANGED <<ctxVars, pdVars, seqVars>>

CallGetDict ==
    /\ Len(acc.calls) < MaxCalls
    /\ acc.fmt = "yaml"
    /\ \E key \in AccKeys : AccRecord("dict", key, get_dict(acc.parent, key, acc.nextId))
    /\ UNCHANGED <<bump, hooks, run, ruff>>
    /\ UNCHANGED <<ctxVars, pdVars, seqVars>>

CallGetList ==
    /\ Len(acc.calls) < MaxCalls
    /\ acc.fmt = "yaml"
    /\ \E key \in AccKeys : AccRecord("list", key, get_list(acc.parent, key, acc.nextId))
    /\ UNCHANGED <<bump, hooks, run, ruff>>
    /\ UNCHANGED <<ctxVars, pdVars, seqVars>>

CallGetTable ==
    /\ Len(acc.calls) < MaxCalls
    /\ acc.fmt = "toml"
    /\ \E key \in AccKeys : AccRecord("table", key, get_table(acc.parent, key, acc.nextId))
    /\ UNCHANGED <<bump, hooks, run, ruff>>
    /\ UNCHANGED <<ctxVars, pdVars, seqVars>>

\* The caller puts something into a container an accessor returned to it.
PutItem ==
    /\ \E key \in AccKeys, it \in AccItems :
          /\ \E i \in DOMAIN acc.calls :
                acc.calls[i].ret # 0 /\ acc.calls[i].ret = acc.parent[key].id
          /\ it \notin acc.parent[key].items
          /\ acc' = [acc EXCEPT !.parent[key].items = @ \cup {it}]
    /\ UNCHANGED <<bump, hooks, run, ruff>>
    /\ UNCHANGED <<ctxVars, pdVars, seqVars>>

\* ------------------------------------------------ claims: the accessors

\* The ids of the containers a parent holds.
IdsIn(par) == {par[k].id : k \in AccKeys}

\* C21: the accessors are idempotent: under an absent key an empty
\* container of the requested kind is inserted and returned; under a key
\* that holds a container of that kind, that container is returned, its
\* contents and the parent unchanged; so a later call returns the
\* container created by the first.
C21_GetOrCreateIdempotent ==
    /\ \A i \in DOMAIN acc.calls :
          /\ acc.calls[i].before[acc.calls[i].key].kind = "absent" =>
                /\ acc.calls[i].err = "none"
                /\ acc.calls[i].ret \notin IdsIn(acc.calls[i].before)
                /\ acc.calls[i].after =
                      [acc.calls[i].before EXCEPT ![acc.calls[i].key] =
                            Held(acc.calls[i].op, acc.calls[i].ret, {})]
          /\ acc.calls[i].before[acc.calls[i].key].kind = acc.calls[i].op =>
                /\ acc.calls[i].err = "none"
                /\ acc.calls[i].ret = acc.calls[i].before[acc.calls[i].key].id
                /\ acc.calls[i].after = acc.calls[i].before
    /\ \A i, j \in DOMAIN acc.calls :
          (/\ i < j
           /\ acc.calls[i].op = acc.calls[j].op
           /\ acc.calls[i].key = acc.calls[j].key
           /\ acc.calls[i].before[acc.calls[i].key].kind = "absent")
          => /\ acc.calls[j].err = "none"
             /\ acc.calls[j].ret = acc.calls[i].ret
             /\ acc.calls[j].after = acc.calls[j].before

\* The first call creates the container, the caller fills it, the second
\* call returns it with what was put into it.
C21_Witness ==
    /\ Len(acc.calls) = 2
    /\ acc.calls[1].before[acc.calls[1].key].kind = "absent"
    /\ acc.calls[2].op = acc.calls[1].op
    /\ acc.calls[2].key = acc.calls[1].key
    /\ acc.calls[2].ret = acc.calls[1].ret
    /\ acc.calls[2].after[acc.calls[2].key].items # {}

\* C22: an accessor called for a key that holds a value of another kind
\* than requested raises; the value is neither replaced nor coerced and
\* the parent is unchanged.
C22_WrongKindRaises ==
    \A i \in DOMAIN acc.calls :
        (/\ acc.calls[i].before[acc.calls[i].key].kind # "absent"
         /\ acc.calls[i].before[acc.calls[i].key].kind # acc.calls[i].op)
        => /\ acc.calls[i].err = "EnsureClassError"
           /\ acc.calls[i].ret = 0
           /\ acc.calls[i].after = acc.calls[i].before

\* get_array is refused an AoT that holds something; get_dict a list.
C22_Witness ==
    \E i \in DOMAIN acc.calls :
        /\ acc.calls[i].err = "EnsureClassError"
        /\ acc.calls[i].before[acc.calls[i].key].kind \in {"aot", "list"}
        /\ acc.calls[i].before[acc.calls[i].key].items # {}

\* ------------------------------------------ _add_pre_commit_config_repo

\* A list as a value of a dict.
List(seq) == <<"l", seq>>
IsList(v) == v[1] = "l"
Elems(v) == v[2]

\* d with key k set to v.
DictWith(d, k, v) == Dict([x \in KeySet(d) \cup {k} |-> IF x = k THEN v ELSE Items(d)[x]])

\* The urls and hook ids the recipe asks for; "local" is the url whose repo
\* gets no rev.
Local == Scalar(0)
Urls == {Local, Scalar(1)}
HookIds == {Scalar(1), Scalar(2)}
Master == Scalar(0)
OtherRev == Scalar(1)
FixFlag == Scalar(1)

\* The repos a config can hold before the recipe runs: with or without a
\* rev, without hooks, or with a hooks list that may hold an id twice.
HookDict(id) == Dict([k \in {"id"} |-> id])
InitialHooks ==
    {<<>>, <<HookDict(Scalar(1))>>, <<HookDict(Scalar(1)), HookDict(Scalar(1))>>}
InitialRepos ==
    {Dict([k \in {"repo"} |-> u]) : u \in Urls}
        \cup {Dict([k \in {"repo", "hooks"} |-> IF k = "repo" THEN u ELSE List(h)]) :
                 u \in Urls, h \in InitialHooks}
        \cup {Dict([k \in {"repo", "rev"} |-> IF k = "repo" THEN u ELSE OtherRev]) : u \in Urls}
        \cup {Dict([k \in {"repo", "rev", "hooks"} |->
                       IF k = "repo" THEN u ELSE IF k = "rev" THEN OtherRev ELSE List(h)]) :
                 u \in Urls, h \in InitialHooks}

HooksInit ==
    hooks \in [init : SeqsOver(InitialRepos, MaxRepos), repos : SeqsOver(InitialRepos, MaxRepos),
               reqs : {<<>>}, err : {"none"}]
    /\ hooks.repos = hooks.init

\* Mutant: the repo is searched with its rev.
RepoPartialWithRev(url) ==
    Dict([k \in {"repo", "rev"} |-> IF k = "repo" THEN url ELSE Master])

\* {"repo": url}
RepoPartial(url) == Dict([k \in {"repo"} |-> url])

\* extra={} if url == "local" else {"rev": "master"}
RepoExtra(url) == IF url = Local THEN EmptyDict ELSE Dict([k \in {"rev"} |-> Master])

\* {"id": id_}
HookPartial(id) == Dict([k \in {"id"} |-> id])

\* The args a hook is given: mixed-line-ending and the like add a flag,
\* most hooks take none.
ArgsOf(id) == IF id = Scalar(1) THEN <<FixFlag>> ELSE <<>>

\* hook_args = get_list(hook_dict, "args"); ensure_contains(hook_args, *args_i)
WithArgs(hook, flags) ==
    IF flags = <<>>
    THEN hook
    ELSE DictWith(hook, "args",
                  List(AppendMissing(IF "args" \in KeySet(hook)
                                     THEN Elems(Items(hook)["args"])
                                     ELSE <<>>, flags)))

\* The hooks list of a repo after get_list(repo_dict, "hooks").
HooksOf(repo) == IF "hooks" \in KeySet(repo) THEN Elems(Items(repo)["hooks"]) ELSE <<>>

\* _add_pre_commit_config_repo: the repo is found or appended, then its
\* hooks list is got or created, then the hook is found or appended and
\* given its args.
add_pre_commit_config_repo(repos, url, id) ==
    LET r1 == ensure_contains_partial(repos, RepoPartial(url), RepoExtra(url))
    IN IF r1.err # "none"
       THEN [repos |-> repos, err |-> r1.err]
       ELSE IF "hooks" \in KeySet(r1.seq[r1.ret]) /\ ~IsList(Items(r1.seq[r1.ret])["hooks"])
       THEN [repos |-> r1.seq, err |-> "EnsureClassError"]
       ELSE LET repo == r1.seq[r1.ret]
                r2 == ensure_contains_partial(HooksOf(repo), HookPartial(id), EmptyDict)
            IN IF r2.err # "none"
               THEN [repos |-> [r1.seq EXCEPT ![r1.ret] = DictWith(repo, "hooks", List(HooksOf(repo)))],
                     err |-> r2.err]
               ELSE [repos |-> [r1.seq EXCEPT ![r1.ret] =
                                   DictWith(repo, "hooks",
                                            List([r2.seq EXCEPT ![r2.ret] =
                                                     WithArgs(r2.seq[r2.ret], ArgsOf(id))]))],
                     err |-> "none"]

\* One call of the recipe; an exception ends the recipe.
CallAddRepo ==
    /\ Len(hooks.reqs) < MaxCalls
    /\ hooks.err = "none"
    /\ \E url \in Urls, id \in HookIds :
          hooks' = [hooks EXCEPT
                      !.repos = add_pre_commit_config_repo(hooks.repos, url, id).repos,
                      !.err = add_pre_commit_config_repo(hooks.repos, url, id).err,
                      !.reqs = Append(hooks.reqs, <<url, id>>)]
    /\ UNCHANGED <<acc, bump, run, ruff>>
    /\ UNCHANGED <<ctxVars, pdVars, seqVars>>

\* --------------------------------- claims: _add_pre_commit_config_repo

\* The entries of a repos list for a url, and the hooks of a repo for an id.
ReposFor(repos, url) ==
    {i \in DOMAIN repos : "repo" \in KeySet(repos[i]) /\ Items(repos[i])["repo"] = url}
HooksFor(repo, id) ==
    {j \in DOMAIN HooksOf(repo) : Items(HooksOf(repo)[j])["id"] = id}

\* At most one entry per url and at most one hook per id in each repo.
NoDuplicates(repos) ==
    /\ \A u \in Urls : Cardinality(ReposFor(repos, u)) <= 1
    /\ \A i \in DOMAIN repos : \A h \in HookIds : Cardinality(HooksFor(repos[i], h)) <= 1

\* The rev of a repo, the empty dict standing for none.
RevOf(repo) == IF "rev" \in KeySet(repo) THEN Items(repo)["rev"] ELSE EmptyDict

\* C28: on a config without duplicated urls or hook ids, after any calls
\* of _add_pre_commit_config_repo the repos list holds exactly one entry
\* for each url asked for, each id asked for is once in its repo's hooks,
\* and the repos that were there keep their rev.
C28_OneRepoOneHook ==
    NoDuplicates(hooks.init) =>
        /\ hooks.err = "none"
        /\ \A n \in DOMAIN hooks.reqs :
              /\ Cardinality(ReposFor(hooks.repos, hooks.reqs[n][1])) = 1
              /\ \A i \in ReposFor(hooks.repos, hooks.reqs[n][1]) :
                    Cardinality(HooksFor(hooks.repos[i], hooks.reqs[n][2])) = 1
        /\ \A i \in DOMAIN hooks.init : RevOf(hooks.repos[i]) = RevOf(hooks.init[i])
        /\ NoDuplicates(hooks.repos)

\* The same hook is asked for twice in a repo that was there with a rev of
\* its own and another hook.
C28_Witness ==
    /\ NoDuplicates(hooks.init)
    /\ Len(hooks.reqs) = 2
    /\ hooks.reqs[1] = hooks.reqs[2]
    /\ \E i \in DOMAIN hooks.init :
          /\ Items(hooks.init[i])["repo"] = hooks.reqs[1][1]
          /\ RevOf(hooks.init[i]) = OtherRev
          /\ Len(HooksOf(hooks.init[i])) = 1
          /\ Len(HooksOf(hooks.repos[i])) = 2

\* -------------------------------------------------- run_bump_my_version

BUMPVERSION_TOML == ".bumpversion.toml"

\* Version(major, minor, patch) and its bumps.
Versions == {<<a, b, c>> : a \in 0..MaxPart, b \in 0..MaxPart, c \in 0..MaxPart}
NoVersion == <<0, 0, 0>>
DefaultVersion == <<0, 1, 0>>
bump_patch(v) == <<v[1], v[2], v[3] + 1>>
bump_minor(v) == <<v[1], v[2] + 1, 0>>
bump_major(v) == <<v[1] + 1, 0, 0>>

\* What a command or a parse gives: a version or the exception it raised.
Got(v) == [st |-> "ok", v |-> v]
Raised(e) == [st |-> e, v |-> NoVersion]

\* get_version_from_git_tag: git tag fails (CalledProcessError), no line
\* parses as a version (ValueError), or the first line that parses.
GitTagResults == {Got(v) : v \in Versions} \cup {Raised("CalledProcessError"), Raised("ValueError")}

\* get_version_from_git_show: git show fails, tomlkit cannot parse the
\* text (ParseError), current_version is missing (NonExistentKey) or is not
\* a version (ParseVersionError), or the version of origin/master.
GitShowResults ==
    {Got(v) : v \in Versions}
        \cup {Raised("CalledProcessError"), Raised("ParseError"),
              Raised("NonExistentKey"), Raised("ParseVersionError")}

BumpInit ==
    bump \in [tag : GitTagResults, show : GitShowResults, current : Versions,
              setOk : BOOLEAN, pc : {"tag"}, prev : {NoVersion}, target : {NoVersion},
              set : {NoVersion}, opened : {0}, mods : SUBSET {README_MD}, err : {"none"}]

\* except (CalledProcessError, ValueError)
CaughtAtTag(e) == e \in {"CalledProcessError", "ValueError"}

\* Mutant: NonExistentKey is not caught.
CaughtAtShowNoKey(e) == e \in {"CalledProcessError", "ParseVersionError"}

\* except (CalledProcessError, ParseVersionError, NonExistentKey)
CaughtAtShow(e) == e \in {"CalledProcessError", "ParseVersionError", "NonExistentKey"}

\* prev = get_version_from_git_tag()
BumpGitTag ==
    /\ bump.pc = "tag"
    /\ bump' = IF bump.tag.st = "ok"
               THEN [bump EXCEPT !.prev = bump.tag.v, !.pc = "current"]
               ELSE IF CaughtAtTag(bump.tag.st)
                    THEN [bump EXCEPT !.pc = "show"]
                    ELSE [bump EXCEPT !.pc = "raised", !.err = bump.tag.st]
    /\ UNCHANGED <<acc, hooks, run, ruff>>
    /\ UNCHANGED <<ctxVars, pdVars, seqVars>>

\* prev = get_version_from_git_show(); on a caught exception
\* run_set_version(Version(0, 1, 0)) and return.
BumpGitShow ==
    /\ bump.pc = "show"
    /\ bump' = IF bump.show.st = "ok"
               THEN [bump EXCEPT !.prev = bump.show.v, !.pc = "current"]
               ELSE IF CaughtAtShow(bump.show.st)
                    THEN [bump EXCEPT !.target = DefaultVersion, !.pc = "set"]
                    ELSE [bump EXCEPT !.pc = "raised", !.err = bump.show.st]
    /\ UNCHANGED <<acc, hooks, run, ruff>>
    /\ UNCHANGED <<ctxVars, pdVars, seqVars>>

\* current = get_version_from_bumpversion_toml(), which opens a context on
\* .bumpversion.toml; the version is set to prev.bump_patch() unless
\* current is one of the three bumps of prev.
BumpReadCurrent ==
    /\ bump.pc = "current"
    /\ bump' = IF bump.current \in {bump_patch(bump.prev), bump_minor(bump.prev),
                                   bump_major(bump.prev)}
               THEN [bump EXCEPT !.opened = @ + 1, !.pc = "done"]
               ELSE [bump EXCEPT !.opened = @ + 1, !.target = bump_patch(bump.prev),
                                 !.pc = "set"]
    /\ UNCHANGED <<acc, hooks, run, ruff>>
    /\ UNCHANGED <<ctxVars, pdVars, seqVars>>

\* run_set_version: set_version runs bump-my-version, whose failure
\* (CalledProcessError) leaves run_bump_my_version; then the path is
\* recorded.
BumpSetVersion ==
    /\ bump.pc = "set"
    /\ bump' = IF bump.setOk
               THEN [bump EXCEPT !.set = bump.target,
                                 !.mods = @ \cup {BUMPVERSION_TOML}, !.pc = "done"]
               ELSE [bump EXCEPT !.pc = "raised", !.err = "set_version"]
    /\ UNCHANGED <<acc, hooks, run, ruff>>
    /\ UNCHANGED <<ctxVars, pdVars, seqVars>>

\* ------------------------------------------ claims: run_bump_my_version

\* C27: when git tag gives no valid version and reading the version of
\* origin/master fails too (the command fails, the version does not parse
\* or the key is missing), the failure is not propagated: the version is
\* set to 0.1.0 and, bump-my-version having run, .bumpversion.toml is
\* recorded; .bumpversion.toml is not read.
C27_FallbackVersion ==
    (/\ bump.pc \in {"done", "raised"}
     /\ bump.tag.st \in {"CalledProcessError", "ValueError"}
     /\ bump.show.st \in {"CalledProcessError", "ParseVersionError", "NonExistentKey"})
    => /\ bump.target = DefaultVersion
       /\ bump.opened = 0
       /\ bump.err \in {"none", "set_version"}
       /\ bump.setOk => /\ bump.err = "none"
                        /\ bump.pc = "done"
                        /\ bump.set = DefaultVersion
                        /\ BUMPVERSION_TOML \in bump.mods

\* No tag parses, the version file of origin/master has no
\* current_version, and the version is set to 0.1.0.
C27_Witness ==
    /\ bump.pc = "done"
    /\ bump.tag.st = "ValueError"
    /\ bump.show.st = "NonExistentKey"
    /\ bump.set = DefaultVersion
    /\ bump.mods = {README_MD, BUMPVERSION_TOML}

\* ------------------------------------------------------------ add_ruff_toml

\* The arguments of the ensure_* calls of add_ruff_toml, in source order.
IgnoreRules ==
    <<"ANN401", "ASYNC109", "C901", "CPY", "D", "E501", "PD", "PERF203",
      "PLC0415", "PLE1205", "PLR0904", "PLR0911", "PLR0912", "PLR0913",
      "PLR0915", "PLR2004", "PT012", "PT013", "PYI041", "S202", "S310",
      "S311", "S602", "S603", "S607", "S101", "W191", "E111", "E114",
      "E117", "COM812", "COM819", "ISC001", "ISC002">>
selected_rules == <<"RUF022", "RUF029">>
test_py_rules == <<"S101", "SLF001">>

\* settings.python_version and f"py{version.replace('.', '')}".
PythonVersions == {"3.13", "3.14"}
TargetVersion(version) == IF version = "3.13" THEN "py313" ELSE "py314"

\* A ruff.toml document: target-version, whether the other scalar keys hold
\* the values the recipe assigns, and the arrays the recipe touches (an
\* absent array and an empty one are both <<>>: get_array creates it empty).
RuffDoc(target, fixed, fixable, ignore, select, test_py, immutable, imports) ==
    [target |-> target, fixed |-> fixed, fixable |-> fixable,
     ignore |-> ignore, select |-> select, test_py |-> test_py,
     immutable |-> immutable, imports |-> imports]

\* tomlkit.document().
EmptyRuffDoc == RuffDoc("none", FALSE, <<>>, <<>>, <<>>, <<>>, <<>>, <<>>)

\* The ruff.toml files a repository starts with: none, or one whose
\* lint.select and lint.ignore already hold a few codes.
InitialRuffDocs ==
    {RuffDoc(t, f, <<>>, i, s, <<>>, <<>>, <<>>) :
        t \in {"none", "py314"}, f \in BOOLEAN,
        i \in SeqsOver({"ANN401", "S101", "RUF022"}, MaxRules),
        s \in {<<>>, <<"ALL">>, <<"RUF022", "ALL">>}}
RuffAbsent == [st |-> "absent", doc |-> EmptyRuffDoc]
RuffFile(d) == [st |-> "file", doc |-> d]

RuffInit ==
    ruff \in [version : PythonVersions,
              init : {RuffAbsent} \cup {RuffFile(d) : d \in InitialRuffDocs},
              disk : {RuffAbsent} \cup {RuffFile(d) : d \in InitialRuffDocs},
              pc : {"start"},
              data : {EmptyRuffDoc},
              current : {RuffAbsent},
              mods : {{}},
              outcome : {"none"},
              runs : {<<>>}]
    /\ ruff.disk = ruff.init

\* The body of the with-block of add_ruff_toml.
AddRuffToml(d, version) ==
    RuffDoc(TargetVersion(version),
            TRUE,
            ensure_contains("array", d.fixable, <<"ALL">>).seq,
            ensure_not_contains(
                ensure_contains("array", d.ignore, IgnoreRules).seq,
                selected_rules \o test_py_rules).seq,
            ensure_contains("array", d.select, <<"ALL">> \o selected_rules).seq,
            ensure_contains("array", d.test_py, test_py_rules).seq,
            ensure_contains("array", d.immutable, <<"typing.cast">>).seq,
            ensure_contains("array", d.imports,
                            <<"from __future__ import annotations">>).seq)

\* Mutant: the comparison never finds the two documents equal.
RuffIsEqualNever(d, c) == FALSE

\* is_equal = data == loads(current), of yield_write_context.
RuffIsEqual(d, c) == d = c.doc

\* A run begins: modifications = set().
RuffBegin ==
    /\ ruff.pc = "start"
    /\ Len(ruff.runs) < MaxRuns
    /\ ruff' = [ruff EXCEPT !.pc = "enter", !.mods = {}, !.outcome = "none"]
    /\ UNCHANGED <<acc, bump, hooks, run>>
    /\ UNCHANGED <<ctxVars, pdVars, seqVars>>

\* yield_toml_doc(RUFF_TOML): the file is read, or the default is yielded.
RuffEnter ==
    /\ ruff.pc = "enter"
    /\ ruff' = [ruff EXCEPT !.pc = "closure",
                            !.current = ruff.disk,
                            !.data = ruff.disk.doc]
    /\ UNCHANGED <<acc, bump, hooks, run>>
    /\ UNCHANGED <<ctxVars, pdVars, seqVars>>

\* The with-block runs on the yielded document.
RuffClosure ==
    /\ ruff.pc = "closure"
    /\ ruff' = [ruff EXCEPT !.pc = "exit",
                            !.data = AddRuffToml(ruff.data, ruff.version)]
    /\ UNCHANGED <<acc, bump, hooks, run>>
    /\ UNCHANGED <<ctxVars, pdVars, seqVars>>

\* The exit of yield_write_context: an absent file is written, an existing
\* one is written when it differs; write_text records the path.
RuffExit ==
    /\ ruff.pc = "exit"
    /\ IF ruff.current.st = "absent"
       THEN ruff' = [ruff EXCEPT !.pc = "main",
                                 !.disk = RuffFile(ruff.data),
                                 !.mods = ruff.mods \cup {RUFF_TOML},
                                 !.outcome = "created"]
       ELSE IF RuffIsEqual(ruff.data, ruff.current)
            THEN ruff' = [ruff EXCEPT !.pc = "main", !.outcome = "unchanged"]
            ELSE ruff' = [ruff EXCEPT !.pc = "main",
                                      !.disk = RuffFile(ruff.data),
                                      !.mods = ruff.mods \cup {RUFF_TOML},
                                      !.outcome = "modified"]
    /\ UNCHANGED <<acc, bump, hooks, run>>
    /\ UNCHANGED <<ctxVars, pdVars, seqVars>>

\* The end of the run: the exit code is decided from the modifications.
RuffMainExit ==
    /\ ruff.pc = "main"
    /\ ruff' = [ruff EXCEPT !.pc = "start",
                            !.runs = Append(ruff.runs,
                                [outcome |-> ruff.outcome,
                                 mods |-> ruff.mods,
                                 code |-> ExitCodeOf(ruff.mods),
                                 disk |-> ruff.disk])]
    /\ UNCHANGED <<acc, bump, hooks, run>>
    /\ UNCHANGED <<ctxVars, pdVars, seqVars>>

\* ---------------------------------------------------- claims: add_ruff_toml

COVERAGERC_TOML == ".coveragerc.toml"
GITHUB_PULL_REQUEST_YAML == ".github/workflows/pull-request.yaml"
GITHUB_PUSH_YAML == ".github/workflows/push.yaml"
PRE_COMMIT_CONFIG_YAML == ".pre-commit-config.yaml"
PYPROJECT_TOML == "pyproject.toml"
PYRIGHTCONFIG_JSON == "pyrightconfig.json"
PYTEST_TOML == "pytest.toml"
\* The push workflow under its old extension, and a script ripgrep matches.
GITHUB_PUSH_YML == ".github/workflows/push.yml"
SCRIPT_PY == "script.py"

\* The files whose content more than one step of the run reads.
Tracked ==
    {BUMPVERSION_TOML, PRE_COMMIT_CONFIG_YAML, GITHUB_PULL_REQUEST_YAML,
     GITHUB_PUSH_YAML}
\* The recipes of _main that are one context on one file under one setting.
PlainRecipes ==
    {COVERAGERC_TOML, PYPROJECT_TOML, PYRIGHTCONFIG_JSON, PYTEST_TOML, README_MD}
\* Every path a write context is opened on.
ContextPaths == Tracked \cup PlainRecipes \cup {RUFF_TOML, SCRIPT_PY}

\* list(Path(".github").rglob("**/*.yaml")) and the versions dict.
Workflows == <<GITHUB_PULL_REQUEST_YAML, GITHUB_PUSH_YAML>>
ActionVersions ==
    <<"actions/checkout", "actions/setup-python", "astral-sh/ruff-action",
      "astral-sh/setup-uv">>
\* The action a stale workflow file still uses at an old version.
StaleAction == "actions/checkout"

\* Mutant: check_versions runs before add_bumpversion_toml.
StepsCheckFirst ==
    <<"check_versions", "add_bumpversion_toml", "run_pre_commit_update",
      "run_ripgrep_and_replace", "update_action_file_extensions",
      "update_action_versions", "add_pre_commit_config_yaml",
      "add_coveragerc_toml", "add_github_pull_request_yaml",
      "add_github_push_yaml", "add_pyproject_toml", "add_pyrightconfig_json",
      "add_pytest_toml", "add_readme_md", "add_ruff_toml",
      "run_bump_my_version">>

\* The steps of _main, in its order.
Steps ==
    <<"add_bumpversion_toml", "check_versions", "run_pre_commit_update",
      "run_ripgrep_and_replace", "update_action_file_extensions",
      "update_action_versions", "add_pre_commit_config_yaml",
      "add_coveragerc_toml", "add_github_pull_request_yaml",
      "add_github_push_yaml", "add_pyproject_toml", "add_pyrightconfig_json",
      "add_pytest_toml", "add_readme_md", "add_ruff_toml",
      "run_bump_my_version">>

\* The tracked files of the repository the run starts in: .bumpversion.toml
\* is absent, lacks allow_dirty or current_version ("raw"), or has both
\* ("normal"); a workflow is absent, uses an old action version ("stale")
\* or not ("fresh"); push.yaml may still be push.yml.
InitialFiles ==
    {f \in [Tracked -> {"absent", "raw", "normal", "stale", "fresh"}] :
        /\ f[BUMPVERSION_TOML] \in {"absent", "raw", "normal"}
        /\ f[PRE_COMMIT_CONFIG_YAML] \in {"absent", "fresh"}
        /\ f[GITHUB_PULL_REQUEST_YAML] \in {"absent", "stale"}
        /\ f[GITHUB_PUSH_YAML] \in {"absent", "stale"}}

MainInit ==
    /\ run \in [ruff : BOOLEAN,
                pr_ruff : BOOLEAN,
                files : InitialFiles,
                yml : BOOLEAN,
                jobs : {{}},
                pc : {1},
                listed : {FALSE},
                todo : {<<>>},
                nplain : {0},
                opens : {[p \in ContextPaths |-> 0]},
                mods : {{}},
                wrote : {{}},
                unrecorded : {{}},
                code : {-1},
                err : {"none"}]
    /\ run.yml => run.files[GITHUB_PUSH_YAML] = "absent"

\* Mutant: the set is replaced by the path.
ModificationsAddOnly(m, p) == {p}

\* Mutant: the path is not recorded.
ModificationsAddNothing(m, p) == m

\* modifications.add(path).
ModificationsAdd(m, p) == m \cup {p}

\* One write context on path, from its entry to its exit: it writes when the
\* file was absent or the document changed, and write_text records the path
\* when the caller passed its modifications.
Context(r, path, changed, passes) ==
    [r EXCEPT !.opens[path] = @ + 1,
              !.mods = IF changed /\ passes THEN ModificationsAdd(@, path) ELSE @,
              !.wrote = IF changed THEN @ \cup {path} ELSE @,
              !.unrecorded =
                  IF changed
                     /\ path \notin
                            (IF passes THEN ModificationsAdd(r.mods, path) ELSE r.mods)
                  THEN @ \cup {path}
                  ELSE @]

At(step) ==
    /\ run.err = "none"
    /\ run.pc \in DOMAIN Steps
    /\ Steps[run.pc] = step

Advance(r) == [r EXCEPT !.pc = @ + 1]
Raise(r, e) == [r EXCEPT !.err = e]
Put(r, path, st) == [r EXCEPT !.files[path] = st]

\* yield_bumpversion_toml sets allow_dirty and defaults current_version.
Normalised(st) == "normal"

\* add_bumpversion_toml(modifications=modifications, ...).
AddBumpversionToml ==
    /\ At("add_bumpversion_toml")
    /\ run' = Advance(Put(Context(run, BUMPVERSION_TOML,
                                  run.files[BUMPVERSION_TOML]
                                      # Normalised(run.files[BUMPVERSION_TOML]),
                                  TRUE),
                          BUMPVERSION_TOML,
                          Normalised(run.files[BUMPVERSION_TOML])))
    /\ UNCHANGED <<acc, bump, hooks, ruff>>
    /\ UNCHANGED <<ctxVars, pdVars, seqVars>>

\* get_version_from_bumpversion_toml(): yield_bumpversion_toml() is given no
\* modifications.
GetVersionFromBumpversionToml(r) ==
    Put(Context(r, BUMPVERSION_TOML,
                r.files[BUMPVERSION_TOML] # Normalised(r.files[BUMPVERSION_TOML]),
                FALSE),
        BUMPVERSION_TOML,
        Normalised(r.files[BUMPVERSION_TOML]))

\* check_versions(): the version is read, then set_version may fail.
CheckVersions ==
    /\ At("check_versions")
    /\ \E ok \in BOOLEAN :
          run' = IF ok
                 THEN Advance(GetVersionFromBumpversionToml(run))
                 ELSE Raise(GetVersionFromBumpversionToml(run), "ValueError")
    /\ UNCHANGED <<acc, bump, hooks, ruff>>
    /\ UNCHANGED <<ctxVars, pdVars, seqVars>>

\* run_pre_commit_update: with a cache younger than twelve hours nothing is
\* done; otherwise the config is read (it must exist) and autoupdate may
\* change it.
RunPreCommitUpdate ==
    /\ At("run_pre_commit_update")
    /\ \E cached \in BOOLEAN, changed \in BOOLEAN :
          run' = IF cached
                 THEN Advance(run)
                 ELSE IF run.files[PRE_COMMIT_CONFIG_YAML] = "absent"
                      THEN Raise(run, "FileNotFoundError")
                      ELSE IF changed
                           THEN Advance([run EXCEPT !.mods =
                                    ModificationsAdd(@, PRE_COMMIT_CONFIG_YAML)])
                           ELSE Advance(run)
    /\ UNCHANGED <<acc, bump, hooks, ruff>>
    /\ UNCHANGED <<ctxVars, pdVars, seqVars>>

\* run_ripgrep_and_replace: a matching file is rewritten through
\* yield_text_file.
RunRipgrepAndReplace ==
    /\ At("run_ripgrep_and_replace")
    /\ \E matched \in BOOLEAN :
          run' = IF matched
                 THEN Advance(Context(run, SCRIPT_PY, TRUE, TRUE))
                 ELSE Advance(run)
    /\ UNCHANGED <<acc, bump, hooks, ruff>>
    /\ UNCHANGED <<ctxVars, pdVars, seqVars>>

\* update_action_file_extensions: .yml is renamed and the old path recorded.
UpdateActionFileExtensions ==
    /\ At("update_action_file_extensions")
    /\ run' = IF run.yml
              THEN Advance([Put(run, GITHUB_PUSH_YAML, "stale") EXCEPT
                               !.yml = FALSE,
                               !.mods = ModificationsAdd(@, GITHUB_PUSH_YML)])
              ELSE Advance(run)
    /\ UNCHANGED <<acc, bump, hooks, ruff>>
    /\ UNCHANGED <<ctxVars, pdVars, seqVars>>

\* product(paths, versions.items()).
Product(paths, versions) ==
    LET n == Len(versions)
    IN [k \in 1..(Len(paths) * n) |->
           <<paths[((k - 1) \div n) + 1], versions[((k - 1) % n) + 1]>>]

\* update_action_versions: the workflow files are listed.
ListWorkflows ==
    /\ At("update_action_versions")
    /\ ~run.listed
    /\ run' = [run EXCEPT
                  !.listed = TRUE,
                  !.todo = Product(SelectSeq(Workflows,
                                             LAMBDA p : run.files[p] # "absent"),
                                   ActionVersions)]
    /\ UNCHANGED <<acc, bump, hooks, ruff>>
    /\ UNCHANGED <<ctxVars, pdVars, seqVars>>

\* One iteration of the loop of update_action_versions: a context on the
\* path for the action.
UpdateActionVersion ==
    /\ At("update_action_versions")
    /\ run.listed
    /\ run.todo # <<>>
    /\ LET path == Head(run.todo)[1]
           action == Head(run.todo)[2]
           changed == run.files[path] = "stale" /\ action = StaleAction
       IN run' = [Put(Context(run, path, changed, TRUE), path,
                      IF changed THEN "fresh" ELSE run.files[path])
                  EXCEPT !.todo = Tail(run.todo)]
    /\ UNCHANGED <<acc, bump, hooks, ruff>>
    /\ UNCHANGED <<ctxVars, pdVars, seqVars>>

UpdateActionVersionsEnd ==
    /\ At("update_action_versions")
    /\ run.listed
    /\ run.todo = <<>>
    /\ run' = Advance(run)
    /\ UNCHANGED <<acc, bump, hooks, ruff>>
    /\ UNCHANGED <<ctxVars, pdVars, seqVars>>

\* add_pre_commit_config_yaml: always run; the settings may ask for repos
\* the file does not hold yet.
AddPreCommitConfigYaml ==
    /\ At("add_pre_commit_config_yaml")
    /\ \E missing \in BOOLEAN :
          run' = Advance(Put(Context(run, PRE_COMMIT_CONFIG_YAML,
                                     run.files[PRE_COMMIT_CONFIG_YAML] = "absent"
                                         \/ missing,
                                     TRUE),
                             PRE_COMMIT_CONFIG_YAML, "fresh"))
    /\ UNCHANGED <<acc, bump, hooks, ruff>>
    /\ UNCHANGED <<ctxVars, pdVars, seqVars>>

\* Mutant: the recipe opens its context twice.
RecipeTwice(r, path, on, changed) ==
    IF on
    THEN Advance([Context(Context(r, path, changed, TRUE), path, FALSE, TRUE)
                  EXCEPT !.nplain = @ + 1])
    ELSE Advance(r)

\* if settings.<flag>: add_<recipe>(modifications=modifications, ...), on a
\* file that is absent, differs from what the recipe produces, or does not.
Recipe(r, path, on, changed) ==
    IF on
    THEN Advance([Context(r, path, changed, TRUE) EXCEPT !.nplain = @ + 1])
    ELSE Advance(r)

AddCoveragercToml ==
    /\ At("add_coveragerc_toml")
    /\ \E on \in BOOLEAN, changed \in BOOLEAN :
          /\ on => run.nplain < MaxPlain
          /\ run' = Recipe(run, COVERAGERC_TOML, on, changed)
    /\ UNCHANGED <<acc, bump, hooks, ruff>>
    /\ UNCHANGED <<ctxVars, pdVars, seqVars>>

\* The jobs of pull-request.yaml after the recipe: one per flag passed.
PullRequestJobs(jobs, pre_commit, ruff_) ==
    jobs \cup (IF pre_commit THEN {"pre-commit"} ELSE {})
         \cup (IF ruff_ THEN {"ruff"} ELSE {})

\* Mutant: the recipe is passed github__pull_request__ruff.
RuffArgumentOfPullRequest(r) == r.pr_ruff

\* The ruff argument _main passes: ruff=settings.ruff.
RuffArgument(r) == r.ruff

AddGithubPullRequestYaml ==
    /\ At("add_github_pull_request_yaml")
    /\ \E pre_commit \in BOOLEAN :
          run' =
              IF pre_commit \/ run.pr_ruff
              THEN LET jobs == PullRequestJobs(run.jobs, pre_commit,
                                               RuffArgument(run))
                       path == GITHUB_PULL_REQUEST_YAML
                   IN Advance([Put(Context(run, path,
                                           run.files[path] = "absent"
                                               \/ jobs # run.jobs,
                                           TRUE),
                                   path,
                                   IF run.files[path] = "absent"
                                   THEN "fresh" ELSE run.files[path])
                               EXCEPT !.jobs = jobs])
              ELSE Advance(run)
    /\ UNCHANGED <<acc, bump, hooks, ruff>>
    /\ UNCHANGED <<ctxVars, pdVars, seqVars>>

AddGithubPushYaml ==
    /\ At("add_github_push_yaml")
    /\ \E on \in BOOLEAN, missing \in BOOLEAN :
          run' =
              IF on
              THEN LET path == GITHUB_PUSH_YAML
                   IN Advance(Put(Context(run, path,
                                          run.files[path] = "absent" \/ missing,
                                          TRUE),
                                  path,
                                  IF run.files[path] = "absent"
                                  THEN "fresh" ELSE run.files[path]))
              ELSE Advance(run)
    /\ UNCHANGED <<acc, bump, hooks, ruff>>
    /\ UNCHANGED <<ctxVars, pdVars, seqVars>>

AddPyprojectToml ==
    /\ At("add_pyproject_toml")
    /\ \E on \in BOOLEAN, changed \in BOOLEAN :
          /\ on => run.nplain < MaxPlain
          /\ run' = Recipe(run, PYPROJECT_TOML, on, changed)
    /\ UNCHANGED <<acc, bump, hooks, ruff>>
    /\ UNCHANGED <<ctxVars, pdVars, seqVars>>

AddPyrightconfigJson ==
    /\ At("add_pyrightconfig_json")
    /\ \E on \in BOOLEAN, changed \in BOOLEAN :
          /\ on => run.nplain < MaxPlain
          /\ run' = Recipe(run, PYRIGHTCONFIG_JSON, on, changed)
    /\ UNCHANGED <<acc, bump, hooks, ruff>>
    /\ UNCHANGED <<ctxVars, pdVars, seqVars>>

AddPytestToml ==
    /\ At("add_pytest_toml")
    /\ \E on \in BOOLEAN, changed \in BOOLEAN :
          /\ on => run.nplain < MaxPlain
          /\ run' = Recipe(run, PYTEST_TOML, on, changed)
    /\ UNCHANGED <<acc, bump, hooks, ruff>>
    /\ UNCHANGED <<ctxVars, pdVars, seqVars>>

AddReadmeMd ==
    /\ At("add_readme_md")
    /\ \E on \in BOOLEAN, changed \in BOOLEAN :
          /\ on => run.nplain < MaxPlain
          /\ run' = Recipe(run, README_MD, on, changed)
    /\ UNCHANGED <<acc, bump, hooks, ruff>>
    /\ UNCHANGED <<ctxVars, pdVars, seqVars>>

\* if settings.ruff: add_ruff_toml(modifications=modifications, ...).
AddRuffTomlStep ==
    /\ At("add_ruff_toml")
    /\ \E changed \in BOOLEAN :
          run' = IF run.ruff
                 THEN Advance(Context(run, RUFF_TOML, changed, TRUE))
                 ELSE Advance(run)
    /\ UNCHANGED <<acc, bump, hooks, ruff>>
    /\ UNCHANGED <<ctxVars, pdVars, seqVars>>

\* run_bump_my_version, unless the repository is a template: the version is
\* set without reading the file ("fallback"), or the file is read and the
\* version kept or set; set_version may fail.
RunBumpMyVersion ==
    /\ At("run_bump_my_version")
    /\ \E how \in {"skipped", "fallback", "kept", "set"}, ok \in BOOLEAN :
          LET read == IF how \in {"kept", "set"}
                      THEN GetVersionFromBumpversionToml(run)
                      ELSE run
          IN run' = IF how \in {"skipped", "kept"}
                    THEN Advance(read)
                    ELSE IF ok
                         THEN Advance([read EXCEPT !.mods =
                                  ModificationsAdd(@, BUMPVERSION_TOML)])
                         ELSE Raise(read, "CalledProcessError")
    /\ UNCHANGED <<acc, bump, hooks, ruff>>
    /\ UNCHANGED <<ctxVars, pdVars, seqVars>>

\* if len(modifications) >= 1: sys.exit(1).
MainExitCode ==
    /\ run.err = "none"
    /\ run.pc = Len(Steps) + 1
    /\ run' = [run EXCEPT !.pc = @ + 1, !.code = ExitCodeOf(run.mods)]
    /\ UNCHANGED <<acc, bump, hooks, ruff>>
    /\ UNCHANGED <<ctxVars, pdVars, seqVars>>

MainDone == run.err = "none" /\ run.pc = Len(Steps) + 2

\* ------------------------------------------------------------ claims: _main

\* C25: the modifications of a run start empty and no step removes a path
\* from them, so what an earlier step recorded is still there when the exit
\* code is decided from them.
C25_AppendOnly ==
    /\ run.mods = {}
    /\ [][/\ run.mods \subseteq run'.mods
          /\ run'.code # run.code =>
                run'.mods = run.mods /\ run'.code = ExitCodeOf(run.mods)]_vars

\* ripgrep's script, recorded by the fourth step, is in the set the exit
\* code is decided from, next to ruff.toml.
C25_Witness ==
    /\ MainDone
    /\ run.code = 1
    /\ SCRIPT_PY \in run.mods
    /\ RUFF_TOML \in run.mods

\* C26 as claimed: no path has a write context opened on it more than once
\* in one run.
C26_OneContextPerPath == \A p \in ContextPaths : run.opens[p] <= 1

WorkflowPaths == {Workflows[i] : i \in DOMAIN Workflows}

\* C26: every target file other than .bumpversion.toml and the workflow
\* files has at most one write context opened on it in a run; on
\* .bumpversion.toml there are two or three (add_bumpversion_toml,
\* check_versions, run_bump_my_version) and on a workflow file one per action
\* of update_action_versions and one more from its own recipe.
C26_OneContextPerPlainPath ==
    /\ \A p \in ContextPaths \ ({BUMPVERSION_TOML} \cup WorkflowPaths) :
          run.opens[p] <= 1
    /\ run.opens[BUMPVERSION_TOML] <= 3
    /\ \A p \in WorkflowPaths : run.opens[p] <= Len(ActionVersions) + 1
    /\ MainDone => run.opens[BUMPVERSION_TOML] >= 2

C26_Witness ==
    /\ MainDone
    /\ run.opens[BUMPVERSION_TOML] = 3
    /\ run.opens[GITHUB_PULL_REQUEST_YAML] = Len(ActionVersions) + 1
    /\ run.opens[RUFF_TOML] = 1
    /\ run.opens[README_MD] = 1

\* C29 as claimed: with github__pull_request__ruff enabled, a finished run
\* has set up the ruff job of pull-request.yaml, whatever settings.ruff is.
C29_RuffJobWhenEnabled == (MainDone /\ run.pr_ruff) => "ruff" \in run.jobs

\* C30: whenever a write context of the run has written its file, the path
\* is in the modifications when the context exits, the contexts
\* get_version_from_bumpversion_toml opens included.
C30_WritesRecorded ==
    /\ run.unrecorded = {}
    /\ run.wrote \subseteq run.mods

\* .bumpversion.toml was written by add_bumpversion_toml and opened again by
\* check_versions and run_bump_my_version.
C30_Witness ==
    /\ MainDone
    /\ BUMPVERSION_TOML \in run.wrote
    /\ run.opens[BUMPVERSION_TOML] = 3
    /\ GITHUB_PULL_REQUEST_YAML \in run.wrote

\* ------------------------------------------------------- specifications

Init == CtxInit /\ PdIdle /\ SeqIdle /\ RecipesIdle
Spec == Init /\ [][Next]_vars

\* The run with another process writing the target files.
NextExt ==
    \/ Next
    \/ \E p \in Paths : ExternalWrite(p)
SpecExt == Init /\ [][NextExt]_vars

\* is_partial_dict on every pair of bounded arguments.
CtxIdle ==
    /\ CtxInit
    /\ enabled = [p \in Paths |-> FALSE]
    /\ disk = [p \in Paths |-> Absent]
InitPd == CtxIdle /\ PdInit /\ SeqIdle /\ RecipesIdle
NextPd == CallIsPartialDict
SpecPd == InitPd /\ [][NextPd]_vars

\* The ensure_* helpers on an Array or an AoT.
InitEnsure == CtxIdle /\ PdIdle /\ EnsureInit /\ RecipesIdle
NextEnsure ==
    \/ CallEnsureContains
    \/ CallEnsureAotContains
    \/ CallEnsureNotContains
SpecEnsure == InitEnsure /\ [][NextEnsure]_vars

\* get_partial_dict and ensure_contains_partial on a list of dicts.
InitPartial == CtxIdle /\ PdIdle /\ PartialInit /\ RecipesIdle
NextPartial ==
    \/ CallGetPartialDict
    \/ CallEnsureContainsPartial
SpecPartial == InitPartial /\ [][NextPartial]_vars

\* The accessors on one parent container.
IdleButAcc == bump = "idle" /\ hooks = "idle" /\ run = "idle" /\ ruff = "idle"
InitAcc == CtxIdle /\ PdIdle /\ SeqIdle /\ IdleButAcc /\ AccInit
NextAcc ==
    \/ CallGetAot
    \/ CallGetArray
    \/ CallGetDict
    \/ CallGetList
    \/ CallGetTable
    \/ PutItem
SpecAcc == InitAcc /\ [][NextAcc]_vars

\* _add_pre_commit_config_repo on one pre-commit config.
IdleButHooks == acc = "idle" /\ bump = "idle" /\ run = "idle" /\ ruff = "idle"
InitHooks == CtxIdle /\ PdIdle /\ SeqIdle /\ IdleButHooks /\ HooksInit
NextHooks == CallAddRepo
SpecHooks == InitHooks /\ [][NextHooks]_vars

\* run_bump_my_version on its own.
IdleButBump == acc = "idle" /\ hooks = "idle" /\ run = "idle" /\ ruff = "idle"
InitBump == CtxIdle /\ PdIdle /\ SeqIdle /\ IdleButBump /\ BumpInit
NextBump ==
    \/ BumpGitTag
    \/ BumpGitShow
    \/ BumpReadCurrent
    \/ BumpSetVersion
SpecBump == InitBump /\ [][NextBump]_vars

\* add_ruff_toml run after run on one repository.
IdleButRuff == acc = "idle" /\ bump = "idle" /\ hooks = "idle" /\ run = "idle"
InitRuff == CtxIdle /\ PdIdle /\ SeqIdle /\ IdleButRuff /\ RuffInit
NextRuff ==
    \/ RuffBegin
    \/ RuffEnter
    \/ RuffClosure
    \/ RuffExit
    \/ RuffMainExit
SpecRuff == InitRuff /\ [][NextRuff]_vars

\* One run of _main, step by step, on one repository.
IdleButRun == acc = "idle" /\ bump = "idle" /\ hooks = "idle" /\ ruff = "idle"
InitMain == CtxIdle /\ PdIdle /\ SeqIdle /\ IdleButRun /\ MainInit
NextMain ==
    \/ AddBumpversionToml
    \/ CheckVersions
    \/ RunPreCommitUpdate
    \/ RunRipgrepAndReplace
    \/ UpdateActionFileExtensions
    \/ ListWorkflows
    \/ UpdateActionVersion
    \/ UpdateActionVersionsEnd
    \/ AddPreCommitConfigYaml
    \/ AddCoveragercToml
    \/ AddGithubPullRequestYaml
    \/ AddGithubPushYaml
    \/ AddPyprojectToml
    \/ AddPyrightconfigJson
    \/ AddPytestToml
    \/ AddReadmeMd
    \/ AddRuffTomlStep
    \/ RunBumpMyVersion
    \/ MainExitCode
SpecMain == InitMain /\ [][NextMain]_vars

====
